---- MODULE Spec2Model ----
(***************************************************************************)
(* Model of the application/consensus bridge of go-tangerine               *)
(* (dex/app.go: DexconApp) together with the parts of the block chain it   *)
(* talks to: the confirmed-block overlay, the committed chain and the      *)
(* governance configuration.                                               *)
(***************************************************************************)
EXTENDS Integers, Sequences, FiniteSets, TLC

\* ---------------------------------------------------------------- bounds
MaxHeight == 2
MaxNonce == 2
MaxBlocks == 2
GenesisBalance == 3
GenesisGasLimit == 3

Rounds == {0, 1}
Chains == {0, 1}
Addrs == {1, 2}
Heights == 0..MaxHeight
Nonces == 0..MaxNonce
None == 0 - 1

\* ------------------------------------------------------------ transactions
\* gas, price, value and payload-data size of the transactions the model
\* sends: a cheap one, an expensive one and one whose gas is below the
\* intrinsic gas of its data.
TxShapes ==
  { [gas |-> 1, price |-> 1, value |-> 0, data |-> 0],
    [gas |-> 2, price |-> 1, value |-> 1, data |-> 0],
    [gas |-> 1, price |-> 1, value |-> 0, data |-> 1] }

MkTx(a, n, s) ==
  [from |-> a, nonce |-> n, gas |-> s.gas, price |-> s.price,
   value |-> s.value, data |-> s.data]

Txs == { MkTx(a, n, s) : a \in Addrs, n \in Nonces, s \in TxShapes }

\* types.Transaction.Cost: gas * gasPrice + value
Cost(tx) == tx.gas * tx.price + tx.value

\* core.IntrinsicGas: base cost plus a cost per byte of data
IntrinsicGas(tx) == 1 + tx.data

\* ---------------------------------------------------------------- codec
\* rlp.EncodeToBytes(&txs): the encoding of a list is never the empty byte
\* string (an empty list is the one byte 0xc0); a nil payload is.
NilPayload == [enc |-> "nil", txs |-> <<>>]
GarbagePayload == [enc |-> "garbage", txs |-> <<>>]
EncodeTxs(txs) == [enc |-> "list", txs |-> txs]
PayloadLen(p) == IF p.enc = "nil" THEN 0 ELSE 1 + Len(p.txs)
DecodeTxs(p) == [ok |-> p.enc = "list", txs |-> p.txs]

\* rlp.EncodeToBytes(hash) / rlp.DecodeBytes(data, &hash)
EncodeHash(h) == [enc |-> "hash", hash |-> h]
GarbageWitnessData == [enc |-> "garbage", hash |-> None]
DecodeHash(d) == [ok |-> d.enc = "hash", hash |-> d.hash]

\* ---------------------------------------------------------------- state
VARIABLES
  gov,              \* governance: numChains and blockGasLimit per round
  chainRoot,        \* DexconApp.chainRoot: chain -> state root (None: absent)
  confirmedBlocks,  \* per chain: confirmed, not yet delivered blocks
  addressCost,      \* per chain, per address: cost in confirmed blocks
  addressNonce,     \* per chain, per address: last nonce in confirmed blocks
  chainLastHeight,  \* per chain: height of the last confirmed block
  ledger,           \* committed blocks, ledger[n + 1] is block number n
  stateDB,          \* root -> account state
  pruned,           \* roots whose state cannot be loaded any more
  deliveredRound,   \* rawdb.ReadLastRoundNumber
  nextHash,         \* number of consensus blocks created so far
  panicked,         \* the node aborted
  last,             \* the last call and what it returned
  pp,               \* a call of PreparePayload under way, step by step
  chainLock,        \* per chain: the write lock of the chain is held
  finalized,        \* heights of the finalized block events sent, in order
  pw,               \* a call of PrepareWitness under way, step by step
  th,               \* per thread: the call it runs and where it stands in it
  chainLocks,       \* DexconApp.chainLocks: chain -> lock (None: absent)
  finalizationHeight, \* the last finalization height consensus gave out
  db,               \* LevelDBBackedDB.db: key -> stored bytes
  tipPuts,          \* number of PutCompactionChainTipInfo calls that succeeded
  dbLast,           \* the last call on the database and what it returned
  govSets,          \* governance: the DKG set and the notary sets per round
  ps,               \* the peerSet: labels, histories and what its server holds
  psLast,           \* the last call on the peer set
  wire,             \* a block on its way through EncodeRLP and DecodeRLP
  writers,          \* goroutines inside a guarded write of the database
  acking,           \* a call of Block.IsAcking and what it returned
  queue,            \* a queue of blocks used through container/heap
  peer,             \* the known sets and the broadcast queues of a remote peer
  rwLock            \* readers and waiting writers of the chains' RWMutex

vars == <<gov, chainRoot, confirmedBlocks, addressCost, addressNonce,
          chainLastHeight, ledger, stateDB, pruned, deliveredRound,
          nextHash, panicked, last, pp, chainLock, finalized, pw,
          th, chainLocks, finalizationHeight, db, tipPuts, dbLast,
          govSets, ps, psLast, wire, writers,
          acking,
          queue,
          peer,
          rwLock>>

appVars == <<chainRoot, confirmedBlocks, addressCost, addressNonce,
             chainLastHeight, ledger, stateDB, pruned, deliveredRound,
             nextHash, panicked, finalized>>

\* The calls that run as threads of their own beside the calls above
lockVars == <<th, chainLocks, finalizationHeight>>
storeVars == <<db, tipPuts, dbLast>>
threadVars == <<pw, lockVars, storeVars>>
peerVars == <<govSets, ps, psLast>>
\* What the application, its threads and the database leave alone
moreVars == <<writers, acking, queue, peer, rwLock>>
moreButWriters == <<acking, queue, peer, rwLock>>
moreButAcking == <<writers, queue, peer, rwLock>>
moreButQueue == <<writers, acking, peer, rwLock>>
moreButPeer == <<writers, acking, queue, rwLock>>
moreButRWLock == <<writers, acking, queue, peer>>
sideVars == <<peerVars, wire, moreVars>>

\* ----------------------------------------------------------- governance
\* The configurations of the model: the number of chains stays or changes
\* from one round to the next, the block gas limit is the one of the genesis
\* block or lower.
GovConfigs ==
  { [numChains |-> [r \in Rounds |-> p[r + 1]],
     blockGasLimit |-> [r \in Rounds |-> p[r + 3]]] :
      p \in { <<1, 1, 3, 2>>, <<2, 2, 2, 3>>, <<1, 2, 3, 3>>, <<2, 1, 2, 2>> } }

\* DexconGovernance.GetNumChains / Configuration(round).NumChains
GetNumChains(round) == gov.numChains[round]

\* DexconGovernance.DexconConfiguration(round).BlockGasLimit
GovBlockGasLimit(round) == gov.blockGasLimit[round]

\* ------------------------------------------------------------ block chain
\* blockchain.CurrentBlock()
CurrentBlock == ledger[Len(ledger)]

\* blockchain.GetBlockByNumber(n): None when there is no such block
HasBlockByNumber(n) == n + 1 \in DOMAIN ledger
GetBlockByNumber(n) == ledger[n + 1]

\* blockchain.StateAt(root): fails for a root without state
StateAtOK(root) == root \in DOMAIN stateDB /\ root \notin pruned
StateAt(root) == stateDB[root]

\* blockchain.GetChainLastConfirmedHeight(chain)
GetChainLastConfirmedHeight(chain) ==
  [ok |-> chainLastHeight[chain] # None, height |-> chainLastHeight[chain]]

\* blockchain.GetCostInConfirmedBlocks(chain, address)
GetCostInConfirmedBlocks(chain, a) ==
  [exist |-> addressCost[chain][a] # None, cost |-> addressCost[chain][a]]

\* blockchain.GetLastNonceInConfirmedBlocks(chain, address)
GetLastNonceInConfirmedBlocks(chain, a) ==
  [exist |-> addressNonce[chain][a] # None, nonce |-> addressNonce[chain][a]]

\* rawdb.ReadLastRoundNumber(chainDB)
ReadLastRoundNumber == deliveredRound

\* ------------------------------------------------------------ DexconApp
\* The chain id reduced mod chainSize as well
addrBelongsToChainModSize(address, chainSize, chainID) ==
  address % chainSize = chainID % chainSize

\* addrBelongsToChain: address.Big() mod chainSize == chainID
addrBelongsToChain(address, chainSize, chainID) ==
  address % chainSize = chainID

\* The senders of a list of transactions, and the transactions of one sender
SendersOf(txs) == { txs[i].from : i \in DOMAIN txs }
RECURSIVE TxsOfSender(_, _)
TxsOfSender(txs, a) ==
  IF txs = <<>> THEN <<>>
  ELSE IF Head(txs).from = a THEN <<Head(txs)>> \o TxsOfSender(Tail(txs), a)
  ELSE TxsOfSender(Tail(txs), a)

\* validateNonce: walks the transactions in order, keeping for every address
\* its first nonce and its latest nonce; an address seen before must come
\* with the latest nonce + 1.
RECURSIVE validateNonceLoop(_, _, _)
validateNonceLoop(txs, addressFirstNonce, addressNonceSeen) ==
  IF txs = <<>> THEN [ok |-> TRUE, first |-> addressFirstNonce]
  ELSE LET tx == Head(txs) IN
    IF addressFirstNonce[tx.from] # None
    THEN IF addressNonceSeen[tx.from] + 1 # tx.nonce
         THEN [ok |-> FALSE, first |-> addressFirstNonce]
         ELSE validateNonceLoop(Tail(txs), addressFirstNonce,
                [addressNonceSeen EXCEPT ![tx.from] = tx.nonce])
    ELSE validateNonceLoop(Tail(txs),
           [addressFirstNonce EXCEPT ![tx.from] = tx.nonce],
           [addressNonceSeen EXCEPT ![tx.from] = tx.nonce])

validateNonce(txs) ==
  validateNonceLoop(txs, [a \in Addrs |-> None], [a \in Addrs |-> None])

\* The expected nonce read from the state alone
verifyExpectNonceOfState(chain, a, currentState) == currentState.nonce[a]

\* VerifyBlock: the nonce the first transaction of an address must carry,
\* last nonce in the confirmed blocks + 1, else the nonce in the state.
verifyExpectNonce(chain, a, currentState) ==
  LET lastConfirmed == GetLastNonceInConfirmedBlocks(chain, a) IN
  IF lastConfirmed.exist THEN lastConfirmed.nonce + 1
  ELSE currentState.nonce[a]

\* The balance read from the state alone
verifyAddressBalanceOfState(chain, a, currentState) == currentState.balance[a]

\* VerifyBlock: balance in the last state including the pending state,
\* the balance in the state minus the cost in the confirmed blocks.
verifyAddressBalance(chain, a, currentState) ==
  LET c == GetCostInConfirmedBlocks(chain, a) IN
  IF c.exist THEN currentState.balance[a] - c.cost
  ELSE currentState.balance[a]

\* VerifyBlock: the block gas limit the gas of the payload is compared with
verifyBlockGasLimit == CurrentBlock.gasLimit

\* The check of the round taken from the second round on
verifyRoundGateAfterFirst(position) ==
  /\ position.round > 1
  /\ GetNumChains(position.round - 1) # GetNumChains(position.round)
  /\ ReadLastRoundNumber < position.round

\* VerifyBlock: the number of chains changes with this round and the round
\* is not delivered yet.
verifyRoundGate(position) ==
  /\ position.round > 0
  /\ GetNumChains(position.round - 1) # GetNumChains(position.round)
  /\ ReadLastRoundNumber < position.round

\* The height check without the case of a chain that has no block yet
verifyPreviousMissingKnown(position) ==
  /\ position.height # 0
  /\ LET l == GetChainLastConfirmedHeight(position.chainID) IN
       l.ok /\ l.height # position.height - 1

\* VerifyBlock: the block is not the next one of its chain
verifyPreviousMissing(position) ==
  /\ position.height # 0
  /\ LET l == GetChainLastConfirmedHeight(position.chainID) IN
       ~l.ok \/ l.height # position.height - 1

VerifyOK == "OK"
VerifyRetryLater == "RetryLater"
VerifyInvalidBlock == "Invalid"
Verdict(s, r) == [status |-> s, reason |-> r]

\* VerifyBlock, the loop over the transactions: intrinsic gas, balance of
\* the sender after the transaction, gas used by the block so far.
RECURSIVE verifyTxLoop(_, _, _, _)
verifyTxLoop(txs, addressesBalance, blockGasUsed, blockGasLimit) ==
  IF txs = <<>> THEN Verdict(VerifyOK, "verified")
  ELSE LET tx == Head(txs)
           balance == addressesBalance[tx.from] - Cost(tx)
           used == blockGasUsed + tx.gas IN
    IF tx.gas < IntrinsicGas(tx)
    THEN Verdict(VerifyInvalidBlock, "intrinsic gas")
    ELSE IF balance < 0
    THEN Verdict(VerifyInvalidBlock, "insufficient funds")
    ELSE IF used > blockGasLimit
    THEN Verdict(VerifyInvalidBlock, "block gas limit")
    ELSE verifyTxLoop(Tail(txs), [addressesBalance EXCEPT ![tx.from] = balance],
                      used, blockGasLimit)

\* VerifyBlock, the checks on the senders: each first nonce found by
\* validateNonce belongs to an address of this chain and is the expected one.
\* The code logs which of the two failed for the address it meets first in
\* map order; the verdict is the same.
verifySenders(position, first, currentState) ==
  \A a \in Addrs : first[a] # None =>
    /\ addrBelongsToChain(a, GetNumChains(position.round), position.chainID)
    /\ verifyExpectNonce(position.chainID, a, currentState) = first[a]

\* VerifyBlock, the checks on the payload
verifyPayload(block, currentState) ==
  LET dec == DecodeTxs(block.payload)
      vn == validateNonce(dec.txs) IN
  IF PayloadLen(block.payload) = 0 THEN Verdict(VerifyOK, "empty payload")
  ELSE IF ~dec.ok THEN Verdict(VerifyInvalidBlock, "payload decode")
  ELSE IF ~vn.ok THEN Verdict(VerifyInvalidBlock, "validate nonce")
  ELSE IF ~verifySenders(block.position, vn.first, currentState)
  THEN Verdict(VerifyInvalidBlock, "sender")
  ELSE verifyTxLoop(dec.txs,
         [a \in Addrs |-> verifyAddressBalance(block.position.chainID, a, currentState)],
         0, verifyBlockGasLimit)

\* VerifyBlock, the part under the read lock of the chain
verifyLocked(block) ==
  LET root == chainRoot[block.position.chainID] IN
  IF verifyPreviousMissing(block.position)
  THEN Verdict(VerifyRetryLater, "previous block")
  ELSE IF verifyRoundGate(block.position)
  THEN IF PayloadLen(block.payload) > 0
       THEN Verdict(VerifyInvalidBlock, "round gate")
       ELSE Verdict(VerifyOK, "round gate")
  ELSE IF root = None THEN Verdict(VerifyRetryLater, "chain root")
  ELSE IF ~StateAtOK(root) THEN Verdict(VerifyInvalidBlock, "state root")
  ELSE verifyPayload(block, StateAt(root))

\* VerifyBlock, the checks of the witness
verifyWitness(witness) ==
  LET w == DecodeHash(witness.data) IN
  IF ~w.ok THEN Verdict(VerifyInvalidBlock, "witness decode")
  ELSE IF CurrentBlock.number < witness.height
  THEN Verdict(VerifyRetryLater, "witness height")
  ELSE IF ~HasBlockByNumber(witness.height)
  THEN Verdict(VerifyInvalidBlock, "witness block")
  ELSE IF GetBlockByNumber(witness.height).hash # w.hash
  THEN Verdict(VerifyInvalidBlock, "witness hash")
  ELSE IF ~StateAtOK(GetBlockByNumber(witness.height).root)
  THEN Verdict(VerifyInvalidBlock, "witness state")
  ELSE Verdict(VerifyOK, "witness")

VerifyBlockLockedFirst(block) ==
  LET l == verifyLocked(block) IN
  IF l.status # VerifyOK THEN l ELSE verifyWitness(block.witness)

VerifyBlock(block) ==
  LET w == verifyWitness(block.witness) IN
  IF w.status # VerifyOK THEN w ELSE verifyLocked(block)

\* ------------------------------------------------------- preparePayload
NoErr == "nil"
Prepared(p, e) == [payload |-> p, err |-> e]

\* A loop that passes over a transaction the balance cannot pay and goes on
RECURSIVE prepareTxLoopPassing(_, _, _, _, _)
prepareTxLoopPassing(txs, i, balance, acc, blockGasLimit) ==
  IF i < 1 \/ i > Len(txs) THEN acc
  ELSE LET tx == txs[i]
           newBalance == balance - Cost(tx)
           used == acc.blockGasUsed + tx.gas IN
    IF tx.gas < IntrinsicGas(tx) THEN acc
    ELSE IF newBalance < 0
    THEN prepareTxLoopPassing(txs, i + 1, balance, acc, blockGasLimit)
    ELSE IF used > blockGasLimit
    THEN [acc EXCEPT !.blockGasUsed = used, !.full = TRUE]
    ELSE prepareTxLoopPassing(txs, i + 1, newBalance,
           [acc EXCEPT !.allTxs = Append(@, tx), !.blockGasUsed = used],
           blockGasLimit)

\* preparePayload, the loop over the queue of one address from startIndex
\* on (i is the index in the queue, counted from 1): stops at the first
\* transaction with too little gas or too little balance, and stops the
\* whole payload when the block gas limit is passed.
RECURSIVE prepareTxLoop(_, _, _, _, _)
prepareTxLoop(txs, i, balance, acc, blockGasLimit) ==
  IF i < 1 \/ i > Len(txs) THEN acc
  ELSE LET tx == txs[i]
           newBalance == balance - Cost(tx)
           used == acc.blockGasUsed + tx.gas IN
    IF tx.gas < IntrinsicGas(tx) THEN acc
    ELSE IF newBalance < 0 THEN acc
    ELSE IF used > blockGasLimit
    THEN [acc EXCEPT !.blockGasUsed = used, !.full = TRUE]
    ELSE prepareTxLoop(txs, i + 1, newBalance,
           [acc EXCEPT !.allTxs = Append(@, tx), !.blockGasUsed = used],
           blockGasLimit)

\* The queue of an address taken from its first transaction on
prepareAddressFromFirst(position, address, txs, currentState, acc, blockGasLimit) ==
  LET cost == GetCostInConfirmedBlocks(position.chainID, address)
      balance == IF cost.exist THEN currentState.balance[address] - cost.cost
                 ELSE currentState.balance[address]
  IN
  IF ~addrBelongsToChain(address, GetNumChains(position.round), position.chainID)
  THEN acc
  ELSE IF Len(txs) = 0 THEN acc
  ELSE prepareTxLoop(txs, 1, balance, acc, blockGasLimit)

\* preparePayload, one address of the pending map
prepareAddress(position, address, txs, currentState, acc, blockGasLimit) ==
  LET cost == GetCostInConfirmedBlocks(position.chainID, address)
      balance == IF cost.exist THEN currentState.balance[address] - cost.cost
                 ELSE currentState.balance[address]
      lastConfirmed == GetLastNonceInConfirmedBlocks(position.chainID, address)
      expectNonce == IF ~lastConfirmed.exist THEN currentState.nonce[address]
                     ELSE lastConfirmed.nonce + 1
  IN
  IF ~addrBelongsToChain(address, GetNumChains(position.round), position.chainID)
  THEN acc
  ELSE IF Len(txs) = 0 THEN acc
  ELSE prepareTxLoop(txs, (expectNonce - txs[1].nonce) + 1, balance, acc,
                     blockGasLimit)

\* preparePayload, the loop over the pending map: order is the order in
\* which the map hands out its addresses, cut the number of addresses
\* looked at before the context of the worker is done.
RECURSIVE prepareAddressMap(_, _, _, _, _, _, _)
prepareAddressMap(position, txsMap, order, cut, currentState, acc, blockGasLimit) ==
  IF order = <<>> \/ cut = 0 \/ acc.full THEN acc
  ELSE prepareAddressMap(position, txsMap, Tail(order), cut - 1, currentState,
         prepareAddress(position, Head(order), txsMap[Head(order)],
                        currentState, acc, blockGasLimit),
         blockGasLimit)

\* preparePayload: the number of chains changes with this round and the
\* round is not delivered yet.
prepareRoundGate(position) ==
  /\ position.round > 0
  /\ GetNumChains(position.round - 1) # GetNumChains(position.round)
  /\ ReadLastRoundNumber < position.round

\* The last confirmed height compared with the height of the block itself
preparePreviousMissingAtHeight(position) ==
  /\ position.height # 0
  /\ LET l == GetChainLastConfirmedHeight(position.chainID) IN
       ~l.ok \/ l.height # position.height

\* preparePayload: the previous block of the chain is not confirmed
preparePreviousMissing(position) ==
  /\ position.height # 0
  /\ LET l == GetChainLastConfirmedHeight(position.chainID) IN
       ~l.ok \/ l.height # position.height - 1

\* preparePayload(ctx, position).  env is what the call meets: lockLate (the
\* context is done once the read lock is taken), pendingErr (the pool
\* fails), txsMap, order and cut.
preparePayload(position, env) ==
  LET root == chainRoot[position.chainID] IN
  IF env.lockLate THEN Prepared(NilPayload, NoErr)
  ELSE IF prepareRoundGate(position) THEN Prepared(NilPayload, NoErr)
  ELSE IF preparePreviousMissing(position)
  THEN Prepared(NilPayload, "previous block not exists")
  ELSE IF root = None THEN Prepared(NilPayload, NoErr)
  ELSE IF ~StateAtOK(root) THEN Prepared(NilPayload, "state")
  ELSE IF env.pendingErr THEN Prepared(NilPayload, "pending")
  ELSE Prepared(
         EncodeTxs(prepareAddressMap(position, env.txsMap, env.order, env.cut,
                     StateAt(root),
                     [allTxs |-> <<>>, blockGasUsed |-> 0, full |-> FALSE],
                     CurrentBlock.gasLimit).allTxs),
         NoErr)

\* PreparePayload, the two selects after the wait: the error channel is
\* read first and an error ends the call, then the payload channel is read;
\* a channel that holds nothing leaves the result nil.
\* The select on the error channel with the deadline reported as an error
\* when the channel holds nothing
selectErrOrDeadline(errCh) ==
  IF errCh # <<>> THEN Head(errCh) ELSE "context deadline exceeded"

\* A select that never takes the error off its channel
selectErrNever(errCh) == NoErr

\* select { case err = <-errCh: ...; default: }
selectErr(errCh) == IF errCh # <<>> THEN Head(errCh) ELSE NoErr

\* select { case payload = <-payloadCh: default: }
selectPayload(payloadCh) ==
  IF payloadCh # <<>> THEN Head(payloadCh) ELSE NilPayload

PreparePayloadReturn(errCh, payloadCh) ==
  IF selectErr(errCh) # NoErr THEN Prepared(NilPayload, selectErr(errCh))
  ELSE Prepared(selectPayload(payloadCh), NoErr)

\* ------------------------------------------- confirmed blocks (overlay)
\* Block.IsEmpty: the proposer id is zero
IsEmpty(block) == block.proposer = 0

RECURSIVE SumCost(_, _)
SumCost(txs, a) ==
  IF txs = <<>> THEN 0
  ELSE (IF Head(txs).from = a THEN Cost(Head(txs)) ELSE 0) + SumCost(Tail(txs), a)

RECURSIVE LastNonce(_, _)
LastNonce(txs, a) ==
  IF txs = <<>> THEN None
  ELSE IF txs[Len(txs)].from = a THEN txs[Len(txs)].nonce
  ELSE LastNonce(SubSeq(txs, 1, Len(txs) - 1), a)

RECURSIVE AllTxs(_)
AllTxs(blocks) ==
  IF blocks = <<>> THEN <<>> ELSE Head(blocks).txs \o AllTxs(Tail(blocks))

\* blockchain.AddConfirmedBlock, the transactions of the block in order:
\* the cost of each is added to the cost of its sender, its nonce becomes
\* the last nonce of its sender.
RECURSIVE addTxs(_, _)
addTxs(txs, info) ==
  IF txs = <<>> THEN info
  ELSE LET tx == Head(txs) IN
    addTxs(Tail(txs),
      [cost |-> [info.cost EXCEPT ![tx.from] = (IF @ = None THEN 0 ELSE @) + Cost(tx)],
       nonce |-> [info.nonce EXCEPT ![tx.from] = tx.nonce]])

\* blockchain.AddConfirmedBlock: fails on a payload that does not decode
AddConfirmedBlockOK(block) ==
  PayloadLen(block.payload) = 0 \/ DecodeTxs(block.payload).ok

AddConfirmedBlock(block) ==
  LET chain == block.position.chainID
      txs == IF PayloadLen(block.payload) = 0 THEN <<>>
             ELSE DecodeTxs(block.payload).txs
      info == addTxs(txs, [cost |-> addressCost[chain], nonce |-> addressNonce[chain]])
  IN
  /\ confirmedBlocks' = [confirmedBlocks EXCEPT ![chain] =
       Append(@, [hash |-> block.hash, position |-> block.position,
                  payload |-> block.payload, witness |-> block.witness,
                  proposer |-> block.proposer, txs |-> txs])]
  /\ addressCost' = [addressCost EXCEPT ![chain] = info.cost]
  /\ addressNonce' = [addressNonce EXCEPT ![chain] = info.nonce]
  /\ chainLastHeight' = [chainLastHeight EXCEPT ![chain] = block.position.height]

\* blockchain.GetConfirmedBlockByHash(chain, hash): index of the block in
\* the confirmed blocks of the chain, 0 when it is not there
GetConfirmedBlockByHash(chain, hash) ==
  LET found == { i \in DOMAIN confirmedBlocks[chain] :
                   confirmedBlocks[chain][i].hash = hash } IN
  IF found = {} THEN 0 ELSE CHOOSE i \in found : TRUE

RemoveAt(seq, i) == SubSeq(seq, 1, i - 1) \o SubSeq(seq, i + 1, Len(seq))

\* blockchain.RemoveConfirmedBlock(chain, hash): takes the block out and
\* subtracts what its transactions added; an address without a transaction
\* in the blocks that remain has no cost and no nonce any more.
RemoveConfirmedBlock(chain, hash) ==
  LET i == GetConfirmedBlockByHash(chain, hash)
      block == confirmedBlocks[chain][i]
      remaining == RemoveAt(confirmedBlocks[chain], i)
      rest == AllTxs(remaining)
  IN
  /\ confirmedBlocks' = [confirmedBlocks EXCEPT ![chain] = remaining]
  /\ addressCost' = [addressCost EXCEPT ![chain] =
       [a \in Addrs |-> IF a \notin SendersOf(rest) THEN None
                        ELSE addressCost[chain][a] - SumCost(block.txs, a)]]
  /\ addressNonce' = [addressNonce EXCEPT ![chain] =
       [a \in Addrs |-> IF a \notin SendersOf(rest) THEN None
                        ELSE LastNonce(rest, a)]]

\* --------------------------------------------------------------- ledger
\* Execution of the transactions of a block on a state: each needs the
\* nonce of its sender in the state and a balance that covers its cost.
RECURSIVE applyTxs(_, _)
applyTxs(txs, st) ==
  IF txs = <<>> \/ ~st.ok THEN st
  ELSE LET tx == Head(txs) IN
    IF st.nonce[tx.from] # tx.nonce \/ st.balance[tx.from] < Cost(tx)
    THEN [st EXCEPT !.ok = FALSE]
    ELSE applyTxs(Tail(txs),
           [st EXCEPT !.nonce[tx.from] = @ + 1, !.balance[tx.from] = @ - Cost(tx)])

\* blockchain.ProcessBlock / ProcessEmptyBlock: the state after the block,
\* on top of the state of the current block
ProcessBlock(header, txs) ==
  LET cur == stateDB[CurrentBlock.root] IN
  applyTxs(txs, [ok |-> header.number = CurrentBlock.number + 1,
                 nonce |-> cur.nonce, balance |-> cur.balance])

ProcessEmptyBlock(header) ==
  LET cur == stateDB[CurrentBlock.root] IN
  [ok |-> header.number = CurrentBlock.number + 1,
   nonce |-> cur.nonce, balance |-> cur.balance]

LedgerHash(number) == 100 + number

\* The block chain takes the processed block as its current block
CommitBlock(header, st) ==
  /\ ledger' = Append(ledger, [number |-> header.number,
                               hash |-> LedgerHash(header.number),
                               root |-> header.number,
                               gasLimit |-> header.gasLimit,
                               round |-> header.round])
  /\ stateDB' = [r \in (DOMAIN stateDB) \cup {header.number} |->
                   IF r = header.number
                   THEN [nonce |-> st.nonce, balance |-> st.balance]
                   ELSE stateDB[r]]
  /\ deliveredRound' = header.round

\* ------------------------------------------------------------- inputs
MaxTxs == 2
MaxQueue == 2

SeqsUpTo(S, n) == UNION { [1..k -> S] : k \in 0..n }

Position(r, c, h) == [round |-> r, chainID |-> c, height |-> h]
Positions == { Position(r, c, h) : r \in Rounds, c \in Chains, h \in Heights }

\* The position consensus asks for next on a chain
NextHeight(c) == IF chainLastHeight[c] = None THEN 0 ELSE chainLastHeight[c] + 1
NextPositions ==
  { Position(r, c, NextHeight(c)) : r \in Rounds, c \in Chains } \cap Positions

\* PrepareWitness(0) of the current block
HeadWitness ==
  [height |-> CurrentBlock.number, data |-> EncodeHash(CurrentBlock.hash)]

\* A witness of a height not committed yet, one with a hash that is not the
\* hash of the block at its height, and one that does not decode
BadWitnesses ==
  { [height |-> CurrentBlock.number + 1, data |-> EncodeHash(CurrentBlock.hash)],
    [height |-> CurrentBlock.number, data |-> EncodeHash(LedgerHash(MaxHeight + 1))],
    [height |-> CurrentBlock.number, data |-> GarbageWitnessData] }

MkBlock(h, pos, payload, witness, proposer) ==
  [hash |-> h, position |-> pos, payload |-> payload, witness |-> witness,
   proposer |-> proposer]

NoBlock ==
  MkBlock(0, Position(0, 0, 0), NilPayload,
          [height |-> 0, data |-> GarbageWitnessData], 0)

Env(lockLate, pendingErr, hardLimit, txsMap, order, cut) ==
  [lockLate |-> lockLate, pendingErr |-> pendingErr, hardLimit |-> hardLimit,
   txsMap |-> txsMap, order |-> order, cut |-> cut]

NoEnv == Env(FALSE, FALSE, FALSE, [a \in Addrs |-> <<>>], <<>>, 0)

\* The queues of one address in the pool: ascending by nonce
IsAscending(q) == \A i \in 1..(Len(q) - 1) : q[i].nonce < q[i + 1].nonce
QueuesOf(a, T) ==
  { q \in SeqsUpTo({ tx \in T : tx.from = a }, MaxQueue) : IsAscending(q) }

AddrOrders == { o \in [1..Cardinality(Addrs) -> Addrs] :
                  \A i, j \in DOMAIN o : i # j => o[i] # o[j] }

CheapTxs == { tx \in Txs : tx.gas = 1 /\ tx.data = 0 }

\* --------------------------------------------------------------- actions
Called(op, block, verdict, err, env) ==
  [op |-> op, block |-> block, status |-> verdict.status,
   reason |-> verdict.reason, err |-> err, env |-> env]

NoVerdict == Verdict("none", "none")

\* No call is under way: the result of the last one has been taken
NoCall == Called("none", NoBlock, NoVerdict, NoErr, NoEnv)
Idle == last.op = "none"

\* VerifyBlock(block)
DoVerifyBlock(block) ==
  /\ ~panicked
  /\ Idle
  /\ last' = Called("VerifyBlock", block, VerifyBlock(block), NoErr, NoEnv)
  /\ UNCHANGED <<gov, sideVars, threadVars, pp, chainLock, appVars>>

\* PreparePayload(position): the worker runs preparePayload; the caller
\* returns what the channels hold when it stops waiting, everything at the
\* done signal and nothing when the hard limit comes first.
DoPreparePayload(position, env) ==
  LET w == preparePayload(position, env)
      r == IF env.hardLimit THEN PreparePayloadReturn(<<>>, <<>>)
           ELSE PreparePayloadReturn(IF w.err # NoErr THEN <<w.err>> ELSE <<>>,
                                     <<w.payload>>)
  IN
  /\ ~panicked
  /\ Idle
  /\ last' = Called("PreparePayload",
                    MkBlock(0, position, r.payload, HeadWitness, 1),
                    NoVerdict, r.err, env)
  /\ UNCHANGED <<gov, sideVars, threadVars, pp, chainLock, appVars>>

\* BlockConfirmed(block), of one of the first blocks consensus confirms
blockConfirmedOf(block, blocks) ==
  /\ ~panicked
  /\ Idle
  /\ nextHash < blocks
  /\ nextHash' = nextHash + 1
  /\ last' = Called("BlockConfirmed", block, NoVerdict, NoErr, NoEnv)
  /\ IF AddConfirmedBlockOK(block)
     THEN /\ AddConfirmedBlock(block)
          /\ UNCHANGED panicked
     ELSE /\ panicked' = TRUE
          /\ UNCHANGED <<confirmedBlocks, addressCost, addressNonce, chainLastHeight>>
  /\ UNCHANGED <<gov, sideVars, threadVars, finalized, pp, chainLock,
                 chainRoot, ledger, stateDB,
                 pruned, deliveredRound>>

\* BlockConfirmed(block)
DoBlockConfirmed(block) == blockConfirmedOf(block, MaxBlocks)

\* BlockDelivered without its last call on the block chain
blockDeliveredKeepsBlock(chainID, blockHash) ==
  UNCHANGED <<confirmedBlocks, addressCost, addressNonce>>

\* BlockDelivered: d.blockchain.RemoveConfirmedBlock(chainID, blockHash)
blockDeliveredRemove(chainID, blockHash) ==
  RemoveConfirmedBlock(chainID, blockHash)

blockDeliveredFailureIgnored(st) == FALSE

\* BlockDelivered: if err != nil { panic(err) } after ProcessEmptyBlock and
\* ProcessBlock
blockDeliveredFailed(st) == ~st.ok

blockDeliveredStoreRootAll(chainID, root) ==
  chainRoot' = [c \in Chains |-> root]

\* BlockDelivered: d.chainRoot.Store(chainID, root)
blockDeliveredStoreRoot(chainID, root) ==
  chainRoot' = [chainRoot EXCEPT ![chainID] = root]

\* BlockDelivered: the heights h..newHeight, one event sent for each
finalizedHeights(h, newHeight) ==
  [k \in 1..(newHeight - h + 1) |-> h + k - 1]

\* BlockDelivered(blockHash, blockPosition, result)
DoBlockDelivered(blockHash, blockPosition, result) ==
  LET chainID == blockPosition.chainID
      i == GetConfirmedBlockByHash(chainID, blockHash)
      block == confirmedBlocks[chainID][i]
      header == [number |-> result.height,
                 gasLimit |-> GovBlockGasLimit(block.position.round),
                 round |-> block.position.round]
      h == CurrentBlock.number + 1
      st == IF IsEmpty(block) THEN ProcessEmptyBlock(header)
            ELSE ProcessBlock(header, block.txs)
  IN
  /\ ~panicked
  /\ Idle
  /\ last' = Called("BlockDelivered",
                    MkBlock(blockHash, blockPosition, NilPayload,
                            [height |-> result.height, data |-> GarbageWitnessData], 0),
                    NoVerdict, NoErr, NoEnv)
  /\ IF i = 0 \/ blockDeliveredFailed(st)
     THEN /\ panicked' = TRUE
          /\ UNCHANGED <<chainRoot, confirmedBlocks, addressCost, addressNonce,
                         ledger, stateDB, deliveredRound, finalized>>
     ELSE /\ CommitBlock(header, st)
          /\ blockDeliveredStoreRoot(chainID, header.number)
          /\ blockDeliveredRemove(chainID, blockHash)
          /\ finalized' = finalized \o finalizedHeights(h, header.number)
          /\ UNCHANGED panicked
  /\ UNCHANGED <<gov, sideVars, threadVars, pp, chainLock, chainLastHeight, pruned, nextHash>>

\* The root of the current block becomes the root of a chain without one
\* (dex.app.chainRoot.Store(chain, &root))
DoStoreChainRoot(chain) ==
  /\ ~panicked
  /\ Idle
  /\ chainRoot[chain] = None
  /\ chainRoot' = [chainRoot EXCEPT ![chain] = CurrentBlock.root]
  /\ last' = Called("StoreChainRoot", NoBlock, NoVerdict, NoErr, NoEnv)
  /\ UNCHANGED <<gov, sideVars, threadVars, finalized, pp, chainLock,
                 confirmedBlocks, addressCost,
                 addressNonce, chainLastHeight, ledger, stateDB, pruned,
                 deliveredRound, nextHash, panicked>>

\* ---------------------------------------------------------------- peerSet
\* The peer set keeps the labels of the peers and three histories of rounds,
\* and tells the server which nodes are direct peers and which groups exist.
\* A node is known by its public key. Every operation holds ps.lock from its
\* first statement to its last: each one is a single step.
selfPK == 0
PKs == {0, 1, 2}

\* A lookup of the governance: the set of public keys, or an error and the
\* nil map
Found(pks) == [err |-> FALSE, pks |-> pks]
Failed == [err |-> TRUE, pks |-> {}]
DKGSetChoices == {Failed, Found({0, 1, 2}), Found({1, 2})}
NotarySetChoices == {Failed, Found({0, 1}), Found({1, 2})}

\* ps.gov.DKGSet(round), ps.gov.NotarySet(round, chainID)
DKGSet(round) == govSets.dkg[round]
NotarySet(round, chainID) == govSets.notary[round][chainID]

dkgLabelOf(round) == [set |-> "dkgset", chainID |-> 0, round |-> round]
notaryLabelOf(chainID, round) ==
  [set |-> "notaryset", chainID |-> chainID, round |-> round]
notarySetName(chainID, round) == <<chainID, round, "notaryset">>
dkgSetName(round) == <<round, "dkgset">>

\* Go maps: a missing key reads as the empty value
MapGet(m, k) == IF k \in DOMAIN m THEN m[k] ELSE {}
MapPut(m, k, v) == [x \in DOMAIN m \cup {k} |-> IF x = k THEN v ELSE m[x]]
MapDelete(m, k) == [x \in DOMAIN m \ {k} |-> m[x]]
\* delete(m[k], e) and then delete(m, k) when m[k] is left empty
MapRemoveFrom(m, k, e) ==
  IF MapGet(m, k) \ {e} = {} THEN MapDelete(m, k)
  ELSE MapPut(m, k, m[k] \ {e})

NewPeerSet ==
  [peer2Labels |-> [k \in {} |-> {}], label2Peers |-> [k \in {} |-> {}],
   history |-> {}, notaryHistory |-> {}, dkgHistory |-> {},
   srvr |-> [direct |-> {}, groups |-> [k \in {} |-> {}]]]

\* the server: a direct peer is a node added and not removed since, a group
\* is a name added and not removed since, with the nodes of its last AddGroup
AddDirectPeer(s, id) ==
  [s EXCEPT !.srvr.direct = @ \cup {id}]
RemoveDirectPeer(s, id) ==
  [s EXCEPT !.srvr.direct = @ \ {id}]
AddGroup(s, name, nodes) ==
  [s EXCEPT !.srvr.groups = MapPut(@, name, nodes)]
RemoveGroup(s, name) ==
  [s EXCEPT !.srvr.groups = MapDelete(@, name)]

addLabel(s, id, label) ==
  [s EXCEPT !.peer2Labels = MapPut(@, id, MapGet(@, id) \cup {label}),
            !.label2Peers = MapPut(@, label, MapGet(@, label) \cup {id})]

\* A removeLabel that takes the label from the peer and leaves the peer
\* under the label
removeLabelOfPeerOnly(s, id, label) ==
  [s EXCEPT !.peer2Labels = MapRemoveFrom(@, id, label)]

removeLabel(s, id, label) ==
  [s EXCEPT !.peer2Labels = MapRemoveFrom(@, id, label),
            !.label2Peers = MapRemoveFrom(@, label, id)]

addDirectPeer(s, pk, label) == AddDirectPeer(addLabel(s, pk, label), pk)

\* A removeDirectPeer that tells the server whatever labels are left
removeDirectPeerAlways(s, pk, label) ==
  RemoveDirectPeer(removeLabel(s, pk, label), pk)

removeDirectPeer(s, pk, label) ==
  LET removed == removeLabel(s, pk, label) IN
  IF MapGet(removed.peer2Labels, pk) = {}
  THEN RemoveDirectPeer(removed, pk)
  ELSE removed

\* for pk := range pks { ... }: one of the four calls for every key
forOne(call, s, pk, label) ==
  CASE call = "addDirectPeer" -> addDirectPeer(s, pk, label)
    [] call = "removeDirectPeer" -> removeDirectPeer(s, pk, label)
    [] call = "addLabel" -> addLabel(s, pk, label)
    [] call = "removeLabel" -> removeLabel(s, pk, label)
RECURSIVE forEach(_, _, _, _)
forEach(call, s, pks, label) ==
  IF pks = {} THEN s
  ELSE LET pk == CHOOSE x \in pks : TRUE IN
       forEach(call, forOne(call, s, pk, label), pks \ {pk}, label)

\* BuildConnection, the loop over the chains from cid on; inOne is
\* inOneNotarySet
RECURSIVE buildNotarySets(_, _, _, _)
buildNotarySets(s, round, cid, inOne) ==
  IF cid >= GetNumChains(round) THEN [s |-> s, inOneNotarySet |-> inOne]
  ELSE
    LET notary == NotarySet(round, cid)
        label == notaryLabelOf(cid, round)
    IN
    IF notary.err THEN buildNotarySets(s, round, cid + 1, inOne)
    ELSE IF selfPK \notin notary.pks
    THEN buildNotarySets(
           AddGroup(forEach("addLabel", s, notary.pks, label),
                    notarySetName(cid, round), notary.pks),
           round, cid + 1, inOne)
    ELSE buildNotarySets(
           forEach("addDirectPeer", s, notary.pks \ {selfPK}, label),
           round, cid + 1, TRUE)

buildConnection(s, round) ==
  LET recorded == [s EXCEPT !.history = @ \cup {round}]
      dkgPKs == DKGSet(round).pks
      inDKGSet == selfPK \in dkgPKs
      withDKG == IF inDKGSet
                 THEN forEach("addDirectPeer", recorded, dkgPKs \ {selfPK},
                              dkgLabelOf(round))
                 ELSE recorded
      built == buildNotarySets(withDKG, round, 0, FALSE)
  IN
  IF ~inDKGSet /\ built.inOneNotarySet
  THEN AddGroup(forEach("addLabel", built.s, dkgPKs, dkgLabelOf(round)),
                dkgSetName(round), dkgPKs)
  ELSE built.s

RECURSIVE forgetNotarySets(_, _, _, _)
forgetNotarySets(s, round, cid, inOne) ==
  IF cid >= GetNumChains(round) THEN [s |-> s, inOneNotarySet |-> inOne]
  ELSE
    LET notary == NotarySet(round, cid)
        label == notaryLabelOf(cid, round)
    IN
    IF notary.err THEN forgetNotarySets(s, round, cid + 1, inOne)
    ELSE IF selfPK \notin notary.pks
    THEN forgetNotarySets(
           RemoveGroup(forEach("removeLabel", s, notary.pks, label),
                       notarySetName(cid, round)),
           round, cid + 1, inOne)
    ELSE forgetNotarySets(
           forEach("removeDirectPeer", s, notary.pks \ {selfPK}, label),
           round, cid + 1, TRUE)

forgetConnection(s, round) ==
  LET dkgPKs == DKGSet(round).pks
      inDKGSet == selfPK \in dkgPKs
      withoutDKG == IF inDKGSet
                    THEN forEach("removeDirectPeer", s, dkgPKs \ {selfPK},
                                 dkgLabelOf(round))
                    ELSE s
      forgotten == forgetNotarySets(withoutDKG, round, 0, FALSE)
  IN
  IF ~inDKGSet /\ forgotten.inOneNotarySet
  THEN RemoveGroup(forEach("removeLabel", forgotten.s, dkgPKs,
                           dkgLabelOf(round)),
                   dkgSetName(round))
  ELSE forgotten.s

\* ForgetConnection: for every r of the history with r <= round,
\* ps.forgetConnection(round) and delete(ps.history, r)
RECURSIVE forgetConnections(_, _, _)
forgetConnections(s, rs, round) ==
  IF rs = {} THEN s
  ELSE LET r == CHOOSE x \in rs : TRUE IN
       forgetConnections(
         [forgetConnection(s, round) EXCEPT !.history = @ \ {r}],
         rs \ {r}, round)

\* BuildNotaryConn, the loop over the chains from chainID on
RECURSIVE buildNotaryConn(_, _, _)
buildNotaryConn(s, round, chainID) ==
  IF chainID >= GetNumChains(round) THEN s
  ELSE
    LET notary == NotarySet(round, chainID) IN
    IF notary.err THEN buildNotaryConn(s, round, chainID + 1)
    ELSE IF selfPK \notin notary.pks
    THEN buildNotaryConn(AddGroup(s, notarySetName(chainID, round), notary.pks),
                         round, chainID + 1)
    ELSE buildNotaryConn(
           forEach("addDirectPeer", s, notary.pks \ {selfPK},
                   notaryLabelOf(chainID, round)),
           round, chainID + 1)

\* A BuildNotaryConn that does not look at the history
buildNotaryConnAgain(s, round) ==
  buildNotaryConn([s EXCEPT !.notaryHistory = @ \cup {round}], round, 0)

buildNotaryConnOnce(s, round) ==
  IF round \in s.notaryHistory THEN s
  ELSE buildNotaryConn([s EXCEPT !.notaryHistory = @ \cup {round}], round, 0)

RECURSIVE forgetNotaryConn(_, _, _)
forgetNotaryConn(s, round, chainID) ==
  IF chainID >= GetNumChains(round) THEN s
  ELSE
    LET notary == NotarySet(round, chainID) IN
    IF notary.err THEN forgetNotaryConn(s, round, chainID + 1)
    ELSE IF selfPK \notin notary.pks
    THEN forgetNotaryConn(RemoveGroup(s, notarySetName(chainID, round)),
                          round, chainID + 1)
    ELSE forgetNotaryConn(
           forEach("removeDirectPeer", s, notary.pks \ {selfPK},
                   notaryLabelOf(chainID, round)),
           round, chainID + 1)

RECURSIVE forgetNotaryConns(_, _)
forgetNotaryConns(s, rs) ==
  IF rs = {} THEN s
  ELSE LET r == CHOOSE x \in rs : TRUE IN
       forgetNotaryConns(
         [forgetNotaryConn(s, r, 0) EXCEPT !.notaryHistory = @ \ {r}],
         rs \ {r})

\* A BuildDKGConn that goes on when the node is not in the set
buildDKGConnAnyway(s, round) ==
  forEach("addDirectPeer", [s EXCEPT !.dkgHistory = @ \cup {round}],
          DKGSet(round).pks \ {selfPK}, dkgLabelOf(round))

buildDKGConn(s, round) ==
  LET dkg == DKGSet(round) IN
  IF dkg.err THEN s
  ELSE IF selfPK \notin dkg.pks THEN s
  ELSE forEach("addDirectPeer", [s EXCEPT !.dkgHistory = @ \cup {round}],
               dkg.pks \ {selfPK}, dkgLabelOf(round))

forgetDKGConn(s, round) ==
  LET dkg == DKGSet(round) IN
  IF dkg.err THEN s
  ELSE IF selfPK \notin dkg.pks THEN s
  ELSE forEach("removeDirectPeer", s, dkg.pks \ {selfPK}, dkgLabelOf(round))

RECURSIVE forgetDKGConns(_, _)
forgetDKGConns(s, rs) ==
  IF rs = {} THEN s
  ELSE LET r == CHOOSE x \in rs : TRUE IN
       forgetDKGConns([forgetDKGConn(s, r) EXCEPT !.dkgHistory = @ \ {r}],
                      rs \ {r})

NoPeerSetCall == [op |-> "none", round |-> 0]
NoGovSets ==
  [dkg |-> [r \in Rounds |-> Failed],
   notary |-> [r \in Rounds |-> [c \in Chains |-> Failed]]]

\* No block is being encoded or decoded
NoWire == [pc |-> "idle", block |-> <<>>, bytes |-> <<>>, decoded |-> <<>>]

\* ---------------------------------------------------------------- Init
\* No call of PreparePayload is under way
NoPrepare ==
  [callerPc |-> "idle", workerPc |-> "none", position |-> Position(0, 0, 0),
   env |-> NoEnv, errCh |-> <<>>, payloadCh |-> <<>>, doneCh |-> <<>>,
   hardDone |-> FALSE, softDone |-> FALSE, firedFirst |-> FALSE,
   w |-> Prepared(NilPayload, NoErr), ret |-> Prepared(NilPayload, NoErr),
   workerAtErr |-> "none", workerAtPayload |-> "none"]

\* No call on the database was made
NoStoreCall ==
  [op |-> "none", round |-> 0, hash |-> 0, height |-> 0, val |-> 0,
   has |-> FALSE, time |-> 0, payload |-> <<>>, err |-> NoErr]

\* The goroutines that call into the application at the same time
Threads == {1, 2, 3}

\* A thread that runs no call
NoThread ==
  [pc |-> "idle", op |-> "none", chain |-> 0, v |-> None, missed |-> FALSE,
   block |-> NoBlock, height |-> 0, h |-> 0, newHeight |-> 0, root |-> None]

\* No call of PrepareWitness is under way
NoWitness ==
  [pc |-> "idle", consensusHeight |-> 0, compared |-> None,
   witness |-> [height |-> 0, data |-> GarbageWitnessData], err |-> NoErr]

GenesisState ==
  [nonce |-> [a \in Addrs |-> 0], balance |-> [a \in Addrs |-> GenesisBalance]]

InitApp ==
  /\ gov \in GovConfigs
  /\ chainRoot = [c \in Chains |-> None]
  /\ confirmedBlocks = [c \in Chains |-> <<>>]
  /\ addressCost = [c \in Chains |-> [a \in Addrs |-> None]]
  /\ addressNonce = [c \in Chains |-> [a \in Addrs |-> None]]
  /\ chainLastHeight = [c \in Chains |-> None]
  /\ ledger = <<[number |-> 0, hash |-> LedgerHash(0), root |-> 0,
                 gasLimit |-> GenesisGasLimit, round |-> 0]>>
  /\ stateDB = [r \in {0} |-> GenesisState]
  /\ pruned = {}
  /\ deliveredRound = 0
  /\ nextHash = 0
  /\ panicked = FALSE
  /\ last = NoCall
  /\ pp = NoPrepare
  /\ chainLock = [c \in Chains |-> FALSE]
  /\ finalized = <<>>
  /\ pw = NoWitness
  /\ th = [t \in Threads |-> NoThread]
  /\ chainLocks = [c \in Chains |-> None]
  /\ finalizationHeight = 0
  /\ db = [k \in {} |-> 0]
  /\ tipPuts = 0
  /\ dbLast = NoStoreCall

\* ---------------------------------------------------------- Block.Acks
\* A hash is HashLen bytes; the acks of a block are hashes in ascending
\* order of their bytes, each at most once (common.SortedHashes).
HashLen == 2
HashBytes == 0..2
MaxAcks == 3
AckHashes == [1..HashLen -> HashBytes]

\* bytes.Compare: -1, 0 or 1 as a is below, equal to or above b, byte by byte
RECURSIVE bytesCompareFrom(_, _, _)
bytesCompareFrom(a, b, i) ==
  IF i > Len(a) /\ i > Len(b) THEN 0
  ELSE IF i > Len(a) THEN 0 - 1
  ELSE IF i > Len(b) THEN 1
  ELSE IF a[i] < b[i] THEN 0 - 1
  ELSE IF a[i] > b[i] THEN 1
  ELSE bytesCompareFrom(a, b, i + 1)
bytesCompare(a, b) == bytesCompareFrom(a, b, 1)

\* sort.Search(n, f) with f(i) = bytes.Compare(b.Acks[i][:], hash[:]) >= 0:
\* the loop of the library between i and j, indices counted from 0
RECURSIVE searchAcks(_, _, _, _)
searchAcks(acks, hash, i, j) ==
  IF i >= j THEN i
  ELSE LET h == (i + j) \div 2 IN
       IF ~(bytesCompare(acks[h + 1], hash) >= 0)
       THEN searchAcks(acks, hash, h + 1, j)
       ELSE searchAcks(acks, hash, i, h)

\* A search that leaves the last ack out
IsAckingButLast(acks, hash) ==
  LET idx == searchAcks(acks, hash, 0, Len(acks) - 1) IN
  ~(idx >= Len(acks) - 1 \/ acks[idx + 1] # hash)

\* Block.IsAcking(hash)
IsAcking(acks, hash) ==
  LET idx == searchAcks(acks, hash, 0, Len(acks)) IN
  ~(idx = Len(acks) \/ acks[idx + 1] # hash)

SortedAcks ==
  { a \in SeqsUpTo(AckHashes, MaxAcks) :
      \A i \in 1..(Len(a) - 1) : bytesCompare(a[i], a[i + 1]) < 0 }

NoAcking == [pc |-> "none", acks |-> <<>>, hash |-> <<0, 0>>, result |-> FALSE]

\* ------------------------------------------------- the queues of blocks
\* BlocksByPosition and BlocksByFinalizationHeight are slices of blocks
\* used through container/heap.  Slices are indexed from 0 as in the code:
\* bs[i + 1] is the block at index i.
MaxPushes == 4
MaxFinalization == 2

\* Position.Newer of two positions of one chain: a later round, or the same
\* round and a greater height
Newer(pos, other) ==
  \/ pos.round > other.round
  \/ pos.round = other.round /\ pos.height > other.height

\* BlocksByPosition.Less
BlocksByPositionLess(bs, i, j) == Newer(bs[j + 1].position, bs[i + 1].position)

\* A comparison that puts the greater finalization height first
BlocksByFinalizationHeightMore(bs, i, j) ==
  bs[i + 1].finalization > bs[j + 1].finalization

\* BlocksByFinalizationHeight.Less
BlocksByFinalizationHeightLess(bs, i, j) ==
  bs[i + 1].finalization < bs[j + 1].finalization

Less(kind, bs, i, j) ==
  IF kind = "BlocksByPosition" THEN BlocksByPositionLess(bs, i, j)
  ELSE BlocksByFinalizationHeightLess(bs, i, j)

\* Swap of both types
Swap(bs, i, j) == [bs EXCEPT ![i + 1] = bs[j + 1], ![j + 1] = bs[i + 1]]

\* container/heap, up(h, j): the parent of j is (j - 1) / 2, and 0 for j = 0
RECURSIVE heapUp(_, _, _)
heapUp(kind, bs, j) ==
  LET i == IF j = 0 THEN 0 ELSE (j - 1) \div 2 IN
  IF i = j \/ ~Less(kind, bs, j, i) THEN bs
  ELSE heapUp(kind, Swap(bs, i, j), i)

\* container/heap, down(h, i, n)
RECURSIVE heapDown(_, _, _, _)
heapDown(kind, bs, i, n) ==
  LET j1 == 2 * i + 1
      j2 == j1 + 1
      j == IF j2 < n /\ Less(kind, bs, j2, j1) THEN j2 ELSE j1
  IN
  IF j1 >= n THEN bs
  ELSE IF ~Less(kind, bs, j, i) THEN bs
  ELSE heapDown(kind, Swap(bs, i, j), j, n)

\* heap.Push(h, x): Push of the type appends x, then up(h, h.Len() - 1)
heapPush(kind, bs, x) == heapUp(kind, Append(bs, x), Len(bs))

\* heap.Pop(h): Swap(0, n), down(h, 0, n), then Pop of the type takes the
\* last block off the slice
heapPop(kind, bs) ==
  LET n == Len(bs) - 1
      sifted == heapDown(kind, Swap(bs, 0, n), 0, n)
  IN [bs |-> SubSeq(sifted, 1, n), ret |-> sifted[n + 1]]

QueueKinds == {"BlocksByPosition", "BlocksByFinalizationHeight"}
QueueBlock(hash, round, height, finalization) ==
  [hash |-> hash, position |-> [round |-> round, height |-> height],
   finalization |-> finalization]
NoQueueBlock == QueueBlock(0, 0, 0, 0)
NoQueue == [kind |-> "none", bs |-> <<>>, pushes |-> 0, ret |-> NoQueueBlock]

\* ------------------------------------------------------------------ peer
\* The known sets and the broadcast queues of one remote peer.  The limits
\* of the code (32768 and 1024 known hashes, 1024, 4, 4, 16 and 128 queued
\* messages) are scaled down; a transaction, a block and a list of hashes
\* to pull are named by their hash.
maxKnownTxs == 2
maxKnownBlocks == 2
maxQueuedTxs == 2
maxQueuedProps == 1
maxQueuedAnns == 1
maxQueuedLatticeBlocks == 1
maxQueuedPullBlocks == 1

PeerTxs == 1..3
PeerTxLists == {<<1>>, <<2, 3>>}
PeerBlocks == 1..3
PeerLatticeBlocks == 1..2
PeerPulls == {<<1>>}

HashSet(list) == { list[i] : i \in DOMAIN list }

\* newPeer: empty sets, empty channels of the capacities above
newPeer ==
  [knownTxs |-> {}, knownBlocks |-> {}, knownLatticeBlocks |-> {},
   queuedTxs |-> <<>>, queuedProps |-> <<>>, queuedAnns |-> <<>>,
   queuedLatticeBlocks |-> <<>>, queuedPullBlocks |-> <<>>]

\* for set.Cardinality() >= max { set.Pop() }: Pop takes any element out,
\* so what is left is any max - 1 of the elements
popDown(set, max) ==
  IF Cardinality(set) >= max
  THEN { kept \in SUBSET set : Cardinality(kept) = max - 1 }
  ELSE {set}

\* MarkBlock(hash) and MarkTransaction(hash): the peers the call may leave
MarkBlock(p, hash) ==
  { [p EXCEPT !.knownBlocks = kept \cup {hash}] :
      kept \in popDown(p.knownBlocks, maxKnownBlocks) }
MarkTransaction(p, hash) ==
  { [p EXCEPT !.knownTxs = kept \cup {hash}] :
      kept \in popDown(p.knownTxs, maxKnownTxs) }

\* SendTransactions(txs), up to p2p.Send
SendTransactions(p, txs) == [p EXCEPT !.knownTxs = @ \cup HashSet(txs)]

\* Transactions marked as known although the queue was full
AsyncSendTransactionsMarking(p, txs) ==
  IF Len(p.queuedTxs) < maxQueuedTxs
  THEN [p EXCEPT !.queuedTxs = Append(@, txs), !.knownTxs = @ \cup HashSet(txs)]
  ELSE [p EXCEPT !.knownTxs = @ \cup HashSet(txs)]

\* AsyncSendTransactions(txs): select with the send on the channel, which
\* is ready while the channel holds fewer messages than its capacity, and
\* a default
AsyncSendTransactions(p, txs) ==
  IF Len(p.queuedTxs) < maxQueuedTxs
  THEN [p EXCEPT !.queuedTxs = Append(@, txs), !.knownTxs = @ \cup HashSet(txs)]
  ELSE p

\* SendNewBlockHashes(hashes, numbers) and SendNewBlock(block)
SendNewBlockHashes(p, hashes) == [p EXCEPT !.knownBlocks = @ \cup HashSet(hashes)]
SendNewBlock(p, block) == [p EXCEPT !.knownBlocks = @ \cup {block}]

AsyncSendNewBlockHash(p, block) ==
  IF Len(p.queuedAnns) < maxQueuedAnns
  THEN [p EXCEPT !.queuedAnns = Append(@, block), !.knownBlocks = @ \cup {block}]
  ELSE p

AsyncSendNewBlock(p, block) ==
  IF Len(p.queuedProps) < maxQueuedProps
  THEN [p EXCEPT !.queuedProps = Append(@, block), !.knownBlocks = @ \cup {block}]
  ELSE p

SendLatticeBlock(p, block) == [p EXCEPT !.knownLatticeBlocks = @ \cup {block}]

AsyncSendLatticeBlock(p, block) ==
  IF Len(p.queuedLatticeBlocks) < maxQueuedLatticeBlocks
  THEN [p EXCEPT !.queuedLatticeBlocks = Append(@, block),
                 !.knownLatticeBlocks = @ \cup {block}]
  ELSE p

\* SendPullBlocks marks nothing
SendPullBlocks(p, hashes) == p

AsyncSendPullBlocks(p, hashes) ==
  IF Len(p.queuedPullBlocks) < maxQueuedPullBlocks
  THEN [p EXCEPT !.queuedPullBlocks = Append(@, hashes)]
  ELSE p

\* broadcast, the first select of one turn of the loop: one of the queues
\* that hold a message gives its first message to its Send; the timer
\* fires when none holds one
BroadcastKinds == {"props", "anns", "latticeBlocks", "pullBlocks", "timer"}
broadcastFirst(p, kind) ==
  IF kind = "props"
  THEN SendNewBlock([p EXCEPT !.queuedProps = Tail(@)], Head(p.queuedProps))
  ELSE IF kind = "anns"
  THEN SendNewBlockHashes([p EXCEPT !.queuedAnns = Tail(@)], <<Head(p.queuedAnns)>>)
  ELSE IF kind = "latticeBlocks"
  THEN SendLatticeBlock([p EXCEPT !.queuedLatticeBlocks = Tail(@)],
                        Head(p.queuedLatticeBlocks))
  ELSE IF kind = "pullBlocks"
  THEN SendPullBlocks([p EXCEPT !.queuedPullBlocks = Tail(@)],
                      Head(p.queuedPullBlocks))
  ELSE p
broadcastReady(p, kind) ==
  IF kind = "props" THEN p.queuedProps # <<>>
  ELSE IF kind = "anns" THEN p.queuedAnns # <<>>
  ELSE IF kind = "latticeBlocks" THEN p.queuedLatticeBlocks # <<>>
  ELSE IF kind = "pullBlocks" THEN p.queuedPullBlocks # <<>>
  ELSE /\ p.queuedProps = <<>> /\ p.queuedAnns = <<>>
       /\ p.queuedLatticeBlocks = <<>> /\ p.queuedPullBlocks = <<>>

\* broadcast, the second select: the transactions queued first, if any
broadcastTxs(p) ==
  IF p.queuedTxs # <<>>
  THEN SendTransactions([p EXCEPT !.queuedTxs = Tail(@)], Head(p.queuedTxs))
  ELSE p

\* One turn of the loop of broadcast
broadcast(p, kind) == broadcastTxs(broadcastFirst(p, kind))

\* The RWMutex of every chain beside its write lock: the number of read
\* locks held and whether a writer waits in Lock
NoRWLock ==
  [readers |-> [c \in Chains |-> 0], waiting |-> [c \in Chains |-> FALSE]]

\* The goroutines that write to the database at the same time, the calls
\* each of them makes at most, and a goroutine that is in no call
StoreWriters == {1, 2}
MaxWrites == 2
NoWrite == [pc |-> "idle", op |-> "none", id |-> 0, val |-> 0, calls |-> 0]
NoWriters == [goroutine |-> [w \in StoreWriters |-> NoWrite], done |-> {}]

InitMore ==
  /\ writers = NoWriters
  /\ acking = NoAcking
  /\ queue = NoQueue
  /\ peer = newPeer
  /\ rwLock = NoRWLock

Init ==
  /\ InitApp
  /\ InitMore
  /\ wire = NoWire
  /\ govSets = NoGovSets
  /\ ps = NewPeerSet
  /\ psLast = NoPeerSetCall

\* The state of an old block is dropped from the database
DoPruneState(root) ==
  /\ ~panicked
  /\ Idle
  /\ root \in DOMAIN stateDB
  /\ root < CurrentBlock.root
  /\ root \notin pruned
  /\ pruned' = pruned \cup {root}
  /\ last' = Called("PruneState", NoBlock, NoVerdict, NoErr, NoEnv)
  /\ UNCHANGED <<gov, sideVars, threadVars, finalized, pp, chainLock,
                 chainRoot, confirmedBlocks,
                 addressCost, addressNonce,
                 chainLastHeight, ledger, stateDB, deliveredRound, nextHash,
                 panicked>>

\* The caller takes the result of the call
Return ==
  /\ ~Idle
  /\ last' = NoCall
  /\ UNCHANGED <<gov, sideVars, threadVars, pp, chainLock, appVars>>

\* ------------------------------------------------- the life of the chains
CheapShape == [gas |-> 1, price |-> 1, value |-> 0, data |-> 0]
HeavyShape == [gas |-> 2, price |-> 1, value |-> 1, data |-> 0]

LifePayloads ==
  { NilPayload, EncodeTxs(<<>>), EncodeTxs(<<MkTx(1, 0, CheapShape)>>),
    EncodeTxs(<<MkTx(2, 0, HeavyShape)>>) }

VerifyBlockCall ==
  /\ Idle
  /\ \E pos \in Positions :
       \/ \E payload \in LifePayloads :
            DoVerifyBlock(MkBlock(0, pos, payload, HeadWitness, 1))
       \/ \E witness \in BadWitnesses :
            DoVerifyBlock(MkBlock(0, pos, NilPayload, witness, 1))

LifePool ==
  [a \in Addrs |-> IF a = 1 THEN <<MkTx(1, 0, CheapShape), MkTx(1, 1, HeavyShape)>>
                   ELSE <<MkTx(2, 0, CheapShape)>>]

LifeEnvs ==
  { Env(TRUE, FALSE, FALSE, NoEnv.txsMap, <<>>, 0),
    Env(FALSE, TRUE, FALSE, NoEnv.txsMap, <<>>, 0),
    Env(FALSE, FALSE, TRUE, NoEnv.txsMap, <<>>, 0),
    Env(FALSE, FALSE, FALSE, LifePool, <<1, 2>>, 2) }

PreparePayloadCall ==
  /\ Idle
  /\ \E pos \in Positions, env \in LifeEnvs : DoPreparePayload(pos, env)

\* The payloads of the blocks consensus confirms: none, one transaction, or
\* two, of one sender or of two
ConfirmPayloads ==
  {NilPayload}
  \cup { EncodeTxs(<<MkTx(1, n, CheapShape)>>) : n \in Nonces }
  \cup { EncodeTxs(<<MkTx(1, n, CheapShape), MkTx(1, n + 1, CheapShape)>>) : n \in Nonces }
  \cup { EncodeTxs(<<MkTx(2, n, HeavyShape), MkTx(1, n, CheapShape)>>) : n \in Nonces }

\* Consensus confirms blocks that verify; an empty block has no payload
ConfirmableBlocks ==
  { b \in { MkBlock(nextHash + 1, pos, payload, HeadWitness, proposer) :
              pos \in NextPositions, payload \in ConfirmPayloads, proposer \in {0, 1} } :
      /\ IsEmpty(b) => PayloadLen(b.payload) = 0
      /\ VerifyBlock(b).status = VerifyOK }

BlockConfirmedCall ==
  /\ Idle /\ ~panicked /\ nextHash < MaxBlocks
  /\ \E b \in ConfirmableBlocks : DoBlockConfirmed(b)

BlockDeliveredCall ==
  \E c \in Chains : \E i \in DOMAIN confirmedBlocks[c] :
    /\ Idle
    /\ CurrentBlock.number < MaxHeight
    /\ DoBlockDelivered(confirmedBlocks[c][i].hash, confirmedBlocks[c][i].position,
                        [height |-> CurrentBlock.number + 1])

StoreChainRootCall == \E c \in Chains : DoStoreChainRoot(c)

PruneStateCall == \E r \in DOMAIN stateDB : DoPruneState(r)

\* Witnesses of every height up to one past the committed one, with the hash
\* of any committed or future block or with bytes that do not decode
Witnesses ==
  { [height |-> h, data |-> d] :
      h \in 0..(CurrentBlock.number + 1),
      d \in { EncodeHash(LedgerHash(k)) : k \in 0..MaxHeight }
               \cup {GarbageWitnessData} }

WitnessPayloads == { GarbagePayload, EncodeTxs(<<MkTx(1, 0, CheapShape)>>) }

VerifyWitnessCall ==
  /\ Idle
  /\ \E pos \in { q \in NextPositions : q.round = 0 },
        witness \in Witnesses, payload \in WitnessPayloads :
       DoVerifyBlock(MkBlock(0, pos, payload, witness, 1))

\* BlockDelivered of a hash that no confirmed block has
BlockDeliveredUnknownCall ==
  /\ Idle
  /\ CurrentBlock.number < MaxHeight
  /\ \E c \in Chains :
       DoBlockDelivered(nextHash + 1, Position(0, c, NextHeight(c)),
                        [height |-> CurrentBlock.number + 1])

Next ==
  \/ VerifyBlockCall
  \/ VerifyWitnessCall
  \/ PreparePayloadCall
  \/ BlockConfirmedCall
  \/ BlockDeliveredCall
  \/ BlockDeliveredUnknownCall
  \/ StoreChainRootCall
  \/ PruneStateCall
  \/ Return

Spec == Init /\ [][Next]_vars

\* ------------------------------------------------ payloads and pools
\* The second specification keeps the chains short and asks VerifyBlock
\* and PreparePayload about every payload and every pool of the bounds.
Payloads ==
  {NilPayload, GarbagePayload} \cup { EncodeTxs(s) : s \in SeqsUpTo(Txs, MaxTxs) }

VerifyPayloadCall ==
  /\ Idle
  /\ \E pos \in NextPositions, payload \in Payloads :
       DoVerifyBlock(MkBlock(0, pos, payload, HeadWitness, 1))

\* Pools: any queue for address 1, a few for address 2
Pools ==
  { [a \in Addrs |-> IF a = 1 THEN q1 ELSE q2] :
      q1 \in QueuesOf(1, Txs),
      q2 \in { <<>>, <<MkTx(2, 0, CheapShape)>>,
               <<MkTx(2, 0, HeavyShape), MkTx(2, 1, CheapShape)>> } }

PoolEnvs ==
  { Env(FALSE, FALSE, FALSE, m, o, k) :
      m \in Pools, o \in AddrOrders, k \in 1..Cardinality(Addrs) }

PreparePoolCall ==
  /\ Idle
  /\ \E pos \in NextPositions, env \in PoolEnvs : DoPreparePayload(pos, env)

ConfirmFirstCall ==
  /\ Idle /\ ~panicked /\ nextHash < 1
  /\ \E b \in ConfirmableBlocks : DoBlockConfirmed(b)

\* genesis.Config.Dexcon.MinGasPrice, on the scale of the prices above
MinGasPrice == 1

\* A transaction priced below the minimum gas price, alone or after a cheap
\* transaction of the other address
UnderpricedShape == [gas |-> 1, price |-> 0, value |-> 0, data |-> 0]
UnderpricedPayloads ==
  { EncodeTxs(<<MkTx(a, n, UnderpricedShape)>>) : a \in Addrs, n \in Nonces }
  \cup { EncodeTxs(<<MkTx(3 - a, 0, CheapShape), MkTx(a, 0, UnderpricedShape)>>) :
           a \in Addrs }

VerifyUnderpricedCall ==
  /\ Idle
  /\ \E pos \in NextPositions, payload \in UnderpricedPayloads :
       DoVerifyBlock(MkBlock(0, pos, payload, HeadWitness, 1))

NextPayload ==
  \/ VerifyPayloadCall
  \/ VerifyUnderpricedCall
  \/ PreparePoolCall
  \/ ConfirmFirstCall
  \/ BlockDeliveredCall
  \/ StoreChainRootCall
  \/ Return

SpecPayload == Init /\ [][NextPayload]_vars

\* --------------------------------- PreparePayload, statement by statement
\* PreparePayload starts: the channels are made, the worker goroutine is
\* started and the caller goes to its first select.
PrepareStart(position, env) ==
  /\ ~panicked /\ Idle
  /\ pp.callerPc = "idle"
  /\ pp' = [NoPrepare EXCEPT !.callerPc = "wait", !.workerPc = "RLock",
                             !.position = position, !.env = env]
  /\ UNCHANGED <<gov, sideVars, threadVars, appVars, last, chainLock>>

\* The context of the worker (softLimit) is done before the worker holds
\* the read lock
SoftLimit ==
  /\ Idle
  /\ pp.workerPc = "RLock" /\ ~pp.softDone
  /\ pp' = [pp EXCEPT !.softDone = TRUE]
  /\ UNCHANGED <<gov, sideVars, threadVars, appVars, last, chainLock>>

\* The context of the caller (hardLimit) is done while the caller waits
HardLimit ==
  /\ Idle
  /\ pp.callerPc = "wait" /\ ~pp.hardDone
  /\ pp' = [pp EXCEPT !.hardDone = TRUE, !.firedFirst = (pp.workerPc # "exit")]
  /\ UNCHANGED <<gov, sideVars, threadVars, appVars, last, chainLock>>

\* The worker: preparePayload from RLock to RUnlock
WorkerPrepare ==
  /\ Idle
  /\ pp.workerPc = "RLock"
  /\ ~chainLock[pp.position.chainID]
  /\ LET w == preparePayload(pp.position,
                             [pp.env EXCEPT !.lockLate = pp.softDone]) IN
     pp' = [pp EXCEPT !.w = w,
                      !.workerPc = IF w.err # NoErr THEN "sendErr"
                                   ELSE "sendPayload"]
  /\ UNCHANGED <<gov, sideVars, threadVars, appVars, last, chainLock>>

\* errCh <- err
WorkerSendErr ==
  /\ Idle
  /\ pp.workerPc = "sendErr"
  /\ pp' = [pp EXCEPT !.errCh = Append(@, pp.w.err), !.workerPc = "sendPayload"]
  /\ UNCHANGED <<gov, sideVars, threadVars, appVars, last, chainLock>>

\* payloadCh <- payload
WorkerSendPayload ==
  /\ Idle
  /\ pp.workerPc = "sendPayload"
  /\ pp' = [pp EXCEPT !.payloadCh = Append(@, pp.w.payload),
                      !.workerPc = "sendDone"]
  /\ UNCHANGED <<gov, sideVars, threadVars, appVars, last, chainLock>>

\* doneCh <- struct{}{}
WorkerSendDone ==
  /\ Idle
  /\ pp.workerPc = "sendDone"
  /\ pp' = [pp EXCEPT !.doneCh = Append(@, 1), !.workerPc = "exit"]
  /\ UNCHANGED <<gov, sideVars, threadVars, appVars, last, chainLock>>

\* select { case <-ctx.Done(): case <-doneCh: }, the case of the context
CallerWakeDeadline ==
  /\ Idle
  /\ pp.callerPc = "wait" /\ pp.hardDone
  /\ pp' = [pp EXCEPT !.callerPc = "selectErr"]
  /\ UNCHANGED <<gov, sideVars, threadVars, appVars, last, chainLock>>

\* select { case <-ctx.Done(): case <-doneCh: }, the case of doneCh
CallerWakeDone ==
  /\ Idle
  /\ pp.callerPc = "wait" /\ pp.doneCh # <<>>
  /\ pp' = [pp EXCEPT !.callerPc = "selectErr", !.doneCh = Tail(@)]
  /\ UNCHANGED <<gov, sideVars, threadVars, appVars, last, chainLock>>

\* The select on errCh: an error ends the call
CallerSelectErr ==
  /\ Idle
  /\ pp.callerPc = "selectErr"
  /\ LET err == selectErr(pp.errCh) IN
     pp' = [pp EXCEPT !.errCh = <<>>,
                      !.workerAtErr = pp.workerPc,
                      !.ret = Prepared(NilPayload, err),
                      !.callerPc = IF err # NoErr THEN "returned"
                                   ELSE "selectPayload"]
  /\ UNCHANGED <<gov, sideVars, threadVars, appVars, last, chainLock>>

\* The select on payloadCh, and the return
CallerSelectPayload ==
  /\ Idle
  /\ pp.callerPc = "selectPayload"
  /\ pp' = [pp EXCEPT !.payloadCh = <<>>,
                      !.workerAtPayload = pp.workerPc,
                      !.ret = Prepared(selectPayload(pp.payloadCh), NoErr),
                      !.callerPc = "returned"]
  /\ UNCHANGED <<gov, sideVars, threadVars, appVars, last, chainLock>>

\* The caller has its result and the worker is gone
PrepareEnd ==
  /\ Idle
  /\ pp.callerPc = "returned" /\ pp.workerPc = "exit"
  /\ pp' = NoPrepare
  /\ UNCHANGED <<gov, sideVars, threadVars, appVars, last, chainLock>>

\* BlockConfirmed, BlockDelivered: d.chainLock(chainID) and d.chainUnlock
ChainLock(chain) ==
  /\ Idle /\ ~panicked
  /\ ~chainLock[chain]
  /\ chainLock' = [chainLock EXCEPT ![chain] = TRUE]
  /\ UNCHANGED <<gov, sideVars, threadVars, appVars, last, pp>>

ChainUnlock(chain) ==
  /\ Idle
  /\ chainLock[chain]
  /\ chainLock' = [chainLock EXCEPT ![chain] = FALSE]
  /\ UNCHANGED <<gov, sideVars, threadVars, appVars, last, pp>>

\* The positions PreparePayload is asked for and what its worker meets
PreparePositions ==
  { Position(r, c, h) : r \in Rounds, c \in Chains, h \in {0, 1} }
PrepareEnvs ==
  { Env(FALSE, pendingErr, FALSE, LifePool, <<1, 2>>, 2) :
      pendingErr \in BOOLEAN }

PrepareStartCall ==
  \E pos \in PreparePositions, env \in PrepareEnvs : PrepareStart(pos, env)
ChainLockCall == \E c \in Chains : ChainLock(c)
ChainUnlockCall == \E c \in Chains : ChainUnlock(c)
\* BlockConfirmed between chainLock and chainUnlock, of a first block
\* without transactions
LockedConfirmCall ==
  /\ Idle /\ ~panicked /\ nextHash < 1
  /\ \E c \in Chains :
       /\ chainLock[c]
       /\ DoBlockConfirmed(MkBlock(nextHash + 1, Position(0, c, 0),
                                   NilPayload, HeadWitness, 1))

NextPrepare ==
  \/ PrepareStartCall
  \/ SoftLimit
  \/ HardLimit
  \/ WorkerPrepare
  \/ WorkerSendErr
  \/ WorkerSendPayload
  \/ WorkerSendDone
  \/ CallerWakeDeadline
  \/ CallerWakeDone
  \/ CallerSelectErr
  \/ CallerSelectPayload
  \/ PrepareEnd
  \/ ChainLockCall
  \/ ChainUnlockCall
  \/ LockedConfirmCall
  \/ StoreChainRootCall
  \/ Return

SpecPrepare == Init /\ [][NextPrepare]_vars

\* ------------------------------------------- PrepareWitness, step by step
\* PrepareWitness takes no lock: it runs beside BlockConfirmed and
\* BlockDelivered, and the current block may change between its two reads.
ErrHeightTooLow == "current height < consensus height"

prepareWitnessTwoReads(compared, witnessBlock) ==
  [height |-> compared.number, data |-> EncodeHash(witnessBlock.hash)]

\* coreTypes.Witness{Height: witnessBlock.NumberU64(), Data: witnessData}
prepareWitnessResult(compared, witnessBlock) ==
  [height |-> witnessBlock.number, data |-> EncodeHash(witnessBlock.hash)]

\* PrepareWitness(consensusHeight) is called
WitnessStart(consensusHeight) ==
  /\ pw.pc = "idle"
  /\ pw' = [NoWitness EXCEPT !.pc = "compare",
                             !.consensusHeight = consensusHeight]
  /\ UNCHANGED <<gov, sideVars, appVars, last, pp, chainLock, lockVars, storeVars>>

\* if d.blockchain.CurrentBlock().NumberU64() >= consensusHeight
WitnessCompare ==
  /\ pw.pc = "compare"
  /\ pw' = IF CurrentBlock.number >= pw.consensusHeight
           THEN [pw EXCEPT !.pc = "assign", !.compared = CurrentBlock.number]
           ELSE [pw EXCEPT !.pc = "done", !.compared = CurrentBlock.number,
                           !.err = ErrHeightTooLow]
  /\ UNCHANGED <<gov, sideVars, appVars, last, pp, chainLock, lockVars, storeVars>>

\* witnessBlock = d.blockchain.CurrentBlock(), and the witness made of it
WitnessAssign ==
  /\ pw.pc = "assign"
  /\ pw' = [pw EXCEPT !.pc = "done",
                      !.witness = prepareWitnessResult(
                                    GetBlockByNumber(pw.compared), CurrentBlock)]
  /\ UNCHANGED <<gov, sideVars, appVars, last, pp, chainLock, lockVars, storeVars>>

\* The caller takes the result
WitnessReturn ==
  /\ pw.pc = "done"
  /\ pw' = NoWitness
  /\ UNCHANGED <<gov, sideVars, appVars, last, pp, chainLock, lockVars, storeVars>>

WitnessStartCall == \E h \in 0..MaxHeight : WitnessStart(h)

NextWitness ==
  \/ WitnessStartCall
  \/ WitnessCompare
  \/ WitnessAssign
  \/ WitnessReturn
  \/ BlockConfirmedCall
  \/ BlockDeliveredCall
  \/ Return

SpecWitness == Init /\ [][NextWitness]_vars

\* ------------------------------------------------- the calls as threads
\* BlockConfirmed, BlockDelivered and the locked section of VerifyBlock and
\* preparePayload run in threads of their own, statement by statement.
\* A lock is named by the thread that made it and the chain it made it for.
NewLock(t, chain) == 10 * t + chain

Writers == {"BlockConfirmed", "BlockDelivered"}
Readers == {"Read"}
\* Thread 1 confirms and delivers, thread 2 delivers and reads, thread 3 reads
Ops(t) ==
  IF t = 1 THEN Writers
  ELSE IF t = 2 THEN {"BlockDelivered"} \cup Readers ELSE Readers

\* The statements between the Lock/RLock and the Unlock/RUnlock of a call
LockedPcs ==
  {"add", "get", "height", "process", "store", "remove", "newHeight", "send",
   "read", "unlock"}
Holds(t) == th[t].pc \in LockedPcs
HoldsWrite(t) == Holds(t) /\ th[t].op \in Writers

storeAlways(m, key, value) == [m EXCEPT ![key] = value]

\* sync.Map.LoadOrStore: the value of the key stays if there is one
loadOrStore(m, key, value) ==
  IF m[key] # None THEN m ELSE [m EXCEPT ![key] = value]

othersUnchanged == UNCHANGED <<gov, sideVars, last, pp, chainLock, pw, storeVars>>

\* consensus calls BlockConfirmed(block) with the next block of a chain
ConfirmStart(t, c) ==
  /\ ~panicked
  /\ th[t].pc = "idle" /\ "BlockConfirmed" \in Ops(t)
  /\ nextHash < MaxBlocks
  /\ \A t2 \in Threads : ~(th[t2].op = "BlockConfirmed" /\ th[t2].chain = c)
  /\ Position(0, c, NextHeight(c)) \in Positions
  /\ th' = [th EXCEPT ![t] =
              [NoThread EXCEPT !.pc = "load", !.op = "BlockConfirmed", !.chain = c,
                 !.block = MkBlock(nextHash + 1, Position(0, c, NextHeight(c)),
                                   NilPayload, HeadWitness, 1)]]
  /\ nextHash' = nextHash + 1
  /\ UNCHANGED <<chainRoot, confirmedBlocks, addressCost, addressNonce,
                 chainLastHeight, ledger, stateDB, pruned, deliveredRound,
                 panicked, finalized, chainLocks, finalizationHeight>>
  /\ othersUnchanged

\* consensus calls BlockDelivered for the oldest confirmed block of a chain,
\* with the next finalization height
DeliverStart(t, c) ==
  /\ ~panicked
  /\ th[t].pc = "idle" /\ "BlockDelivered" \in Ops(t)
  /\ finalizationHeight < MaxHeight
  /\ confirmedBlocks[c] # <<>>
  /\ \A t2 \in Threads : ~(th[t2].op = "BlockDelivered" /\ th[t2].chain = c)
  /\ th' = [th EXCEPT ![t] =
              [NoThread EXCEPT !.pc = "load", !.op = "BlockDelivered", !.chain = c,
                 !.block = MkBlock(confirmedBlocks[c][1].hash,
                                   confirmedBlocks[c][1].position, NilPayload,
                                   confirmedBlocks[c][1].witness, 0),
                 !.height = finalizationHeight + 1]]
  /\ finalizationHeight' = finalizationHeight + 1
  /\ UNCHANGED <<appVars, chainLocks>>
  /\ othersUnchanged

\* VerifyBlock or the worker of PreparePayload comes to its locked section
ReadStart(t, c) ==
  /\ ~panicked
  /\ th[t].pc = "idle" /\ "Read" \in Ops(t)
  /\ th' = [th EXCEPT ![t] =
              [NoThread EXCEPT !.pc = "load", !.op = "Read", !.chain = c]]
  /\ UNCHANGED <<appVars, chainLocks, finalizationHeight>>
  /\ othersUnchanged

\* chainLock / chainRLock: v, ok := d.chainLocks.Load(chainID)
ThreadLoad(t) ==
  /\ ~panicked
  /\ th[t].pc = "load"
  /\ th' = [th EXCEPT ![t] =
              IF chainLocks[th[t].chain] # None
              THEN [@ EXCEPT !.pc = "lock", !.v = chainLocks[th[t].chain]]
              ELSE [@ EXCEPT !.pc = "loadOrStore", !.missed = TRUE]]
  /\ UNCHANGED <<appVars, chainLocks, finalizationHeight>>
  /\ othersUnchanged

\* v, _ = d.chainLocks.LoadOrStore(chainID, &sync.RWMutex{})
ThreadLoadOrStore(t) ==
  /\ ~panicked
  /\ th[t].pc = "loadOrStore"
  /\ chainLocks' = loadOrStore(chainLocks, th[t].chain, NewLock(t, th[t].chain))
  /\ th' = [th EXCEPT ![t] = [@ EXCEPT !.pc = "lock",
                                       !.v = chainLocks'[th[t].chain]]]
  /\ UNCHANGED <<appVars, finalizationHeight>>
  /\ othersUnchanged

\* v.(*sync.RWMutex).Lock() and RLock(): a writer waits for every holder of
\* the lock, a reader for a writer that holds it
ThreadLock(t) ==
  /\ ~panicked
  /\ th[t].pc = "lock"
  /\ \A t2 \in Threads \ {t} :
       Holds(t2) /\ th[t2].v = th[t].v
         => th[t].op \in Readers /\ th[t2].op \in Readers
  /\ th' = [th EXCEPT ![t].pc =
              IF th[t].op = "BlockConfirmed" THEN "add"
              ELSE IF th[t].op = "BlockDelivered" THEN "get" ELSE "read"]
  /\ UNCHANGED <<appVars, chainLocks, finalizationHeight>>
  /\ othersUnchanged

\* BlockConfirmed: d.blockchain.AddConfirmedBlock(&block), panic on error
ConfirmAdd(t) ==
  /\ ~panicked
  /\ th[t].pc = "add"
  /\ th' = [th EXCEPT ![t].pc = "unlock"]
  /\ IF AddConfirmedBlockOK(th[t].block)
     THEN /\ AddConfirmedBlock(th[t].block)
          /\ UNCHANGED panicked
     ELSE /\ panicked' = TRUE
          /\ UNCHANGED <<confirmedBlocks, addressCost, addressNonce, chainLastHeight>>
  /\ UNCHANGED <<chainRoot, ledger, stateDB, pruned, deliveredRound, nextHash,
                 finalized, chainLocks, finalizationHeight>>
  /\ othersUnchanged

\* BlockDelivered: block, txs := d.blockchain.GetConfirmedBlockByHash(...)
DeliverGet(t) ==
  LET i == GetConfirmedBlockByHash(th[t].chain, th[t].block.hash) IN
  /\ ~panicked
  /\ th[t].pc = "get"
  /\ IF i = 0
     THEN /\ panicked' = TRUE
          /\ UNCHANGED th
     ELSE /\ th' = [th EXCEPT ![t] = [@ EXCEPT !.pc = "height",
                       !.block = confirmedBlocks[th[t].chain][i]]]
          /\ UNCHANGED panicked
  /\ UNCHANGED <<chainRoot, confirmedBlocks, addressCost, addressNonce,
                 chainLastHeight, ledger, stateDB, pruned, deliveredRound,
                 nextHash, finalized, chainLocks, finalizationHeight>>
  /\ othersUnchanged

\* h := d.blockchain.CurrentBlock().NumberU64() + 1
DeliverHeight(t) ==
  /\ ~panicked
  /\ th[t].pc = "height"
  /\ th' = [th EXCEPT ![t] = [@ EXCEPT !.pc = "process",
                                       !.h = CurrentBlock.number + 1]]
  /\ UNCHANGED <<appVars, chainLocks, finalizationHeight>>
  /\ othersUnchanged

\* root, err = d.blockchain.ProcessEmptyBlock / ProcessBlock, panic on error
DeliverProcess(t) ==
  LET block == th[t].block
      header == [number |-> th[t].height,
                 gasLimit |-> GovBlockGasLimit(block.position.round),
                 round |-> block.position.round]
      st == IF IsEmpty(block) THEN ProcessEmptyBlock(header)
            ELSE ProcessBlock(header, block.txs)
  IN
  /\ ~panicked
  /\ th[t].pc = "process"
  /\ IF blockDeliveredFailed(st)
     THEN /\ panicked' = TRUE
          /\ UNCHANGED <<th, ledger, stateDB, deliveredRound>>
     ELSE /\ CommitBlock(header, st)
          /\ th' = [th EXCEPT ![t] = [@ EXCEPT !.pc = "store",
                                               !.root = header.number]]
          /\ UNCHANGED panicked
  /\ UNCHANGED <<chainRoot, confirmedBlocks, addressCost, addressNonce,
                 chainLastHeight, pruned, nextHash, finalized, chainLocks,
                 finalizationHeight>>
  /\ othersUnchanged

\* d.chainRoot.Store(chainID, root)
DeliverStore(t) ==
  /\ ~panicked
  /\ th[t].pc = "store"
  /\ blockDeliveredStoreRoot(th[t].chain, th[t].root)
  /\ th' = [th EXCEPT ![t].pc = "remove"]
  /\ UNCHANGED <<confirmedBlocks, addressCost, addressNonce, chainLastHeight,
                 ledger, stateDB, pruned, deliveredRound, nextHash, panicked,
                 finalized, chainLocks, finalizationHeight>>
  /\ othersUnchanged

\* d.blockchain.RemoveConfirmedBlock(chainID, blockHash)
DeliverRemove(t) ==
  /\ ~panicked
  /\ th[t].pc = "remove"
  /\ blockDeliveredRemove(th[t].chain, th[t].block.hash)
  /\ th' = [th EXCEPT ![t].pc = "newHeight"]
  /\ UNCHANGED <<chainRoot, chainLastHeight, ledger, stateDB, pruned,
                 deliveredRound, nextHash, panicked, finalized, chainLocks,
                 finalizationHeight>>
  /\ othersUnchanged

\* newHeight := d.blockchain.CurrentBlock().NumberU64()
DeliverNewHeight(t) ==
  /\ ~panicked
  /\ th[t].pc = "newHeight"
  /\ th' = [th EXCEPT ![t] = [@ EXCEPT !.pc = "send",
                                       !.newHeight = CurrentBlock.number]]
  /\ UNCHANGED <<appVars, chainLocks, finalizationHeight>>
  /\ othersUnchanged

\* for h <= newHeight { go d.finalizedBlockFeed.Send(...); h++ }
DeliverSend(t) ==
  /\ ~panicked
  /\ th[t].pc = "send"
  /\ IF th[t].h <= th[t].newHeight
     THEN /\ finalized' = Append(finalized, th[t].h)
          /\ th' = [th EXCEPT ![t].h = @ + 1]
     ELSE /\ th' = [th EXCEPT ![t].pc = "unlock"]
          /\ UNCHANGED finalized
  /\ UNCHANGED <<chainRoot, confirmedBlocks, addressCost, addressNonce,
                 chainLastHeight, ledger, stateDB, pruned, deliveredRound,
                 nextHash, panicked, chainLocks, finalizationHeight>>
  /\ othersUnchanged

\* The locked section of VerifyBlock and preparePayload reads the confirmed
\* blocks and the chain root of the chain
ReaderRead(t) ==
  /\ ~panicked
  /\ th[t].pc = "read"
  /\ th' = [th EXCEPT ![t].pc = "unlock"]
  /\ UNCHANGED <<appVars, chainLocks, finalizationHeight>>
  /\ othersUnchanged

\* chainUnlock / chainRUnlock: Load, panic if the chain has no lock, Unlock
ThreadUnlock(t) ==
  /\ ~panicked
  /\ th[t].pc = "unlock"
  /\ IF chainLocks[th[t].chain] = None
     THEN panicked' = TRUE /\ UNCHANGED th
     ELSE th' = [th EXCEPT ![t] = NoThread] /\ UNCHANGED panicked
  /\ UNCHANGED <<chainRoot, confirmedBlocks, addressCost, addressNonce,
                 chainLastHeight, ledger, stateDB, pruned, deliveredRound,
                 nextHash, finalized, chainLocks, finalizationHeight>>
  /\ othersUnchanged

ConfirmStartCall == \E t \in Threads, c \in Chains : ConfirmStart(t, c)
DeliverStartCall == \E t \in Threads, c \in Chains : DeliverStart(t, c)
ReadStartCall == \E t \in Threads, c \in Chains : ReadStart(t, c)

NextThreads ==
  \/ ConfirmStartCall
  \/ DeliverStartCall
  \/ ReadStartCall
  \/ \E t \in Threads : ThreadLoad(t)
  \/ \E t \in Threads : ThreadLoadOrStore(t)
  \/ \E t \in Threads : ThreadLock(t)
  \/ \E t \in Threads : ConfirmAdd(t)
  \/ \E t \in Threads : DeliverGet(t)
  \/ \E t \in Threads : DeliverHeight(t)
  \/ \E t \in Threads : DeliverProcess(t)
  \/ \E t \in Threads : DeliverStore(t)
  \/ \E t \in Threads : DeliverRemove(t)
  \/ \E t \in Threads : DeliverNewHeight(t)
  \/ \E t \in Threads : DeliverSend(t)
  \/ \E t \in Threads : ReaderRead(t)
  \/ \E t \in Threads : ThreadUnlock(t)

\* Every round has two chains
InitThreads == Init /\ \A r \in Rounds : GetNumChains(r) = 2

SpecThreads == InitThreads /\ [][NextThreads]_vars

\* ------------------------------------------------------- LevelDBBackedDB
\* leveldb: a map from keys to the bytes put under them
MaxTip == 3
StoreHashes == {1, 2}
ZeroHash == 0
ErrNotFound == "leveldb: not found"

dbHas(key) == key \in DOMAIN db
dbGet(key) == IF dbHas(key) THEN [err |-> NoErr, value |-> db[key]]
              ELSE [err |-> ErrNotFound, value |-> 0]
dbPut(key, value) ==
  db' = [k \in (DOMAIN db) \cup {key} |-> IF k = key THEN value ELSE db[k]]

StoreCalled(op, fields) ==
  [f \in DOMAIN NoStoreCall |->
     IF f = "op" THEN op
     ELSE IF f \in DOMAIN fields THEN fields[f] ELSE NoStoreCall[f]]

storeOthersUnchanged ==
  UNCHANGED <<gov, sideVars, appVars, last, pp, chainLock, pw, lockVars>>

\* -- the tip of the compaction chain
compactionChainTipInfoKey == [prefix |-> "cc-tip", id |-> 0]
ErrInvalidCompactionChainTipHeight == "invalid compaction chain tip height"

\* rlp of compactionChainTipInfo{Height, Hash}
EncodeTipInfo(info) == [enc |-> "tip", height |-> info.height, hash |-> info.hash]
DecodeTipInfo(bytes) == [height |-> bytes.height, hash |-> bytes.hash]

\* internalGetCompactionChainTipInfo: the zero info when no tip is stored
internalGetCompactionChainTipInfo ==
  LET queried == dbGet(compactionChainTipInfoKey) IN
  IF queried.err = ErrNotFound THEN [height |-> 0, hash |-> ZeroHash]
  ELSE DecodeTipInfo(queried.value)

tipHeightNotAbove(info, height) == height <= info.height

\* PutCompactionChainTipInfo: if info.Height+1 != height
tipHeightInvalid(info, height) == info.height + 1 # height

PutCompactionChainTipInfo(blockHash, height) ==
  LET marshaled == EncodeTipInfo([hash |-> blockHash, height |-> height])
      info == internalGetCompactionChainTipInfo
  IN
  IF tipHeightInvalid(info, height)
  THEN /\ dbLast' = StoreCalled("PutCompactionChainTipInfo",
                      [hash |-> blockHash, height |-> height,
                       err |-> ErrInvalidCompactionChainTipHeight])
       /\ UNCHANGED <<db, tipPuts>>
  ELSE /\ dbPut(compactionChainTipInfoKey, marshaled)
       /\ tipPuts' = tipPuts + 1
       /\ dbLast' = StoreCalled("PutCompactionChainTipInfo",
                      [hash |-> blockHash, height |-> height])

GetCompactionChainTipInfo ==
  LET info == internalGetCompactionChainTipInfo IN
  /\ dbLast' = StoreCalled("GetCompactionChainTipInfo",
                 [hash |-> info.hash, height |-> info.height])
  /\ UNCHANGED <<db, tipPuts>>

PutTipCall ==
  /\ \E h \in StoreHashes, height \in 0..MaxTip : PutCompactionChainTipInfo(h, height)
  /\ storeOthersUnchanged

GetTipCall == GetCompactionChainTipInfo /\ storeOthersUnchanged

NextTip == PutTipCall \/ GetTipCall

SpecTip == Init /\ [][NextTip]_vars

\* -- DKG private keys and master private shares, one of each per round
DKGKeys == {1, 2}
ErrDKGPrivateKeyExists == "dkg private key exists"
ErrDKGPrivateKeyDoesNotExist == "dkg private key does not exists"
ErrDKGMasterPrivateSharesDoesNotExist == "dkg master private shares does not exists"

\* The prefix and the round as eight bytes, little endian
getDKGPrivateKeyKey(round) == [prefix |-> "dkg-prvs", id |-> round]
getDKGMasterPrivateSharesKey(round) ==
  [prefix |-> "dkg-master-private-shares", id |-> round]

\* rlp of dkg.PrivateKey and of dkg.PrivateKeyShares
EncodeDKG(kind, v) == [enc |-> kind, val |-> v]
DecodeDKG(bytes) == bytes.val

HasDKGPrivateKey(round) == dbHas(getDKGPrivateKeyKey(round))

dkgPrivateKeyNeverExists(round) == FALSE

\* PutDKGPrivateKey: exists, err := lvl.HasDKGPrivateKey(round)
dkgPrivateKeyExists(round) == HasDKGPrivateKey(round)

PutDKGPrivateKey(round, prv) ==
  IF dkgPrivateKeyExists(round)
  THEN /\ dbLast' = StoreCalled("PutDKGPrivateKey",
                      [round |-> round, val |-> prv, err |-> ErrDKGPrivateKeyExists])
       /\ UNCHANGED db
  ELSE /\ dbPut(getDKGPrivateKeyKey(round), EncodeDKG("prv", prv))
       /\ dbLast' = StoreCalled("PutDKGPrivateKey", [round |-> round, val |-> prv])

GetDKGPrivateKey(round) ==
  LET queried == dbGet(getDKGPrivateKeyKey(round)) IN
  /\ dbLast' = IF queried.err = ErrNotFound
               THEN StoreCalled("GetDKGPrivateKey",
                      [round |-> round, err |-> ErrDKGPrivateKeyDoesNotExist])
               ELSE StoreCalled("GetDKGPrivateKey",
                      [round |-> round, val |-> DecodeDKG(queried.value)])
  /\ UNCHANGED db

PutOrUpdateDKGMasterPrivateShares(round, shares) ==
  /\ dbPut(getDKGMasterPrivateSharesKey(round), EncodeDKG("shares", shares))
  /\ dbLast' = StoreCalled("PutOrUpdateDKGMasterPrivateShares",
                 [round |-> round, val |-> shares])

GetDKGMasterPrivateShares(round) ==
  LET queried == dbGet(getDKGMasterPrivateSharesKey(round)) IN
  /\ dbLast' = IF queried.err = ErrNotFound
               THEN StoreCalled("GetDKGMasterPrivateShares",
                      [round |-> round, err |-> ErrDKGMasterPrivateSharesDoesNotExist])
               ELSE StoreCalled("GetDKGMasterPrivateShares",
                      [round |-> round, val |-> DecodeDKG(queried.value)])
  /\ UNCHANGED db

PutDKGPrivateKeyCall ==
  /\ \E r \in Rounds, k \in DKGKeys : PutDKGPrivateKey(r, k)
  /\ UNCHANGED tipPuts /\ storeOthersUnchanged
GetDKGPrivateKeyCall ==
  /\ \E r \in Rounds : GetDKGPrivateKey(r)
  /\ UNCHANGED tipPuts /\ storeOthersUnchanged
PutSharesCall ==
  /\ \E r \in Rounds, k \in DKGKeys : PutOrUpdateDKGMasterPrivateShares(r, k)
  /\ UNCHANGED tipPuts /\ storeOthersUnchanged
GetSharesCall ==
  /\ \E r \in Rounds : GetDKGMasterPrivateShares(r)
  /\ UNCHANGED tipPuts /\ storeOthersUnchanged

NextDKG ==
  \/ PutDKGPrivateKeyCall
  \/ GetDKGPrivateKeyCall
  \/ PutSharesCall
  \/ GetSharesCall

SpecDKG == Init /\ [][NextDKG]_vars

\* -- blocks
ErrBlockExists == "block exists"
ErrBlockDoesNotExist == "block does not exist"

\* A time is an instant, in nanoseconds from the epoch, and a location.
\* Nanoseconds are signed integers of TimeBits bits and a second has
\* NanosPerSecond of them.
TimeBits == 3
NanosPerSecond == 3
Instants == (0 - 2^(TimeBits - 1))..(2^(TimeBits - 1) - 1)
Times == [nano : Instants, loc : {"UTC", "Local"}]

\* uint64(x) of a signed integer and int64(x) of an unsigned one
ToUnsigned(x) == x % 2^TimeBits
ToSigned(u) == IF u >= 2^(TimeBits - 1) THEN u - 2^TimeBits ELSE u

\* Go's / and % truncate toward zero
Quo(a, b) == IF a >= 0 THEN a \div b ELSE 0 - ((0 - a) \div b)
Rem(a, b) == a - b * Quo(a, b)

\* time.Unix(sec, nsec).UTC()
Unix(sec, nsec) == [nano |-> sec * NanosPerSecond + nsec, loc |-> "UTC"]

\* rlpTimestamp.EncodeRLP: uint64(t.UTC().UnixNano())
EncodeTimestamp(t) == ToUnsigned(t.nano)

decodeTimestampSeconds(nano) == Unix(Quo(ToSigned(nano), NanosPerSecond), 0)

\* rlpTimestamp.DecodeRLP
DecodeTimestamp(nano) ==
  Unix(Quo(ToSigned(nano), NanosPerSecond), Rem(ToSigned(nano), NanosPerSecond))

\* A block of the store: its hash, its time and its payload (None: nil)
StoreBlock(hash, time, payload) == [hash |-> hash, time |-> time, payload |-> payload]
StorePayloads == {None, 0, 1}
StoreBlocks ==
  { StoreBlock(h, t, p) : h \in StoreHashes, t \in Times, p \in StorePayloads }

\* Block.EncodeRLP: the time as its nanoseconds; a nil payload and an empty
\* one are the same bytes
EncodeBlock(b) ==
  [enc |-> "block", hash |-> b.hash, time |-> EncodeTimestamp(b.time),
   payload |-> IF b.payload = None THEN 0 ELSE b.payload]

\* Block.DecodeRLP
DecodeBlock(bytes) ==
  StoreBlock(bytes.hash, DecodeTimestamp(bytes.time), bytes.payload)

getBlockKey(hash) == [prefix |-> "b-", id |-> hash]

HasBlock(hash) ==
  /\ dbLast' = StoreCalled("HasBlock", [hash |-> hash, has |-> dbHas(getBlockKey(hash))])
  /\ UNCHANGED db

GetBlock(hash) ==
  LET queried == dbGet(getBlockKey(hash)) IN
  /\ dbLast' = IF queried.err = ErrNotFound
               THEN StoreCalled("GetBlock", [hash |-> hash, err |-> ErrBlockDoesNotExist])
               ELSE LET block == DecodeBlock(queried.value) IN
                    StoreCalled("GetBlock", [hash |-> block.hash, time |-> block.time,
                                             payload |-> block.payload])
  /\ UNCHANGED db

blockNeverExists(key) == FALSE

\* PutBlock: exists, err := lvl.internalHasBlock(blockKey)
internalHasBlock(key) == dbHas(key)

PutBlock(block) ==
  LET marshaled == EncodeBlock(block)
      blockKey == getBlockKey(block.hash)
  IN
  IF internalHasBlock(blockKey)
  THEN /\ dbLast' = StoreCalled("PutBlock",
                      [hash |-> block.hash, time |-> block.time,
                       payload |-> block.payload, err |-> ErrBlockExists])
       /\ UNCHANGED db
  ELSE /\ dbPut(blockKey, marshaled)
       /\ dbLast' = StoreCalled("PutBlock",
                      [hash |-> block.hash, time |-> block.time,
                       payload |-> block.payload])

\* An UpdateBlock that writes without looking for the block first
UpdateBlockUnchecked(block) ==
  /\ dbPut(getBlockKey(block.hash), EncodeBlock(block))
  /\ dbLast' = StoreCalled("UpdateBlock",
                 [hash |-> block.hash, time |-> block.time,
                  payload |-> block.payload])

UpdateBlock(block) ==
  LET marshaled == EncodeBlock(block)
      blockKey == getBlockKey(block.hash)
  IN
  IF ~internalHasBlock(blockKey)
  THEN /\ dbLast' = StoreCalled("UpdateBlock",
                      [hash |-> block.hash, time |-> block.time,
                       payload |-> block.payload, err |-> ErrBlockDoesNotExist])
       /\ UNCHANGED db
  ELSE /\ dbPut(blockKey, marshaled)
       /\ dbLast' = StoreCalled("UpdateBlock",
                      [hash |-> block.hash, time |-> block.time,
                       payload |-> block.payload])

UpdateBlockCall ==
  /\ \E b \in StoreBlocks : UpdateBlock(b)
  /\ UNCHANGED tipPuts /\ storeOthersUnchanged
PutBlockCall ==
  /\ \E b \in StoreBlocks : PutBlock(b)
  /\ UNCHANGED tipPuts /\ storeOthersUnchanged
GetBlockCall ==
  /\ \E h \in StoreHashes : GetBlock(h)
  /\ UNCHANGED tipPuts /\ storeOthersUnchanged
HasBlockCall ==
  /\ \E h \in StoreHashes : HasBlock(h)
  /\ UNCHANGED tipPuts /\ storeOthersUnchanged

NextBlocks == PutBlockCall \/ GetBlockCall \/ HasBlockCall \/ UpdateBlockCall

\* The store does not read the governance: one configuration is enough
InitBlocks == Init /\ \A r \in Rounds : GetNumChains(r) = 2

SpecBlocks == InitBlocks /\ [][NextBlocks]_vars

\* ------------------------------------------------ the calls of the peerSet
peerSetOthersUnchanged ==
  UNCHANGED <<gov, govSets, appVars, last, pp, chainLock, threadVars, wire,
              moreVars>>

BuildConnection(round) ==
  /\ ps' = buildConnection(ps, round)
  /\ psLast' = [op |-> "BuildConnection", round |-> round]
  /\ peerSetOthersUnchanged
ForgetConnection(round) ==
  /\ ps' = forgetConnections(ps, {r \in ps.history : r <= round}, round)
  /\ psLast' = [op |-> "ForgetConnection", round |-> round]
  /\ peerSetOthersUnchanged
BuildNotaryConn(round) ==
  /\ ps' = buildNotaryConnOnce(ps, round)
  /\ psLast' = [op |-> "BuildNotaryConn", round |-> round]
  /\ peerSetOthersUnchanged
ForgetNotaryConn(round) ==
  /\ ps' = forgetNotaryConns(ps, {r \in ps.notaryHistory : r <= round})
  /\ psLast' = [op |-> "ForgetNotaryConn", round |-> round]
  /\ peerSetOthersUnchanged
BuildDKGConn(round) ==
  /\ ps' = buildDKGConn(ps, round)
  /\ psLast' = [op |-> "BuildDKGConn", round |-> round]
  /\ peerSetOthersUnchanged
ForgetDKGConn(round) ==
  /\ ps' = forgetDKGConns(ps, {r \in ps.dkgHistory : r <= round})
  /\ psLast' = [op |-> "ForgetDKGConn", round |-> round]
  /\ peerSetOthersUnchanged

BuildConnectionCall == \E round \in Rounds : BuildConnection(round)
ForgetConnectionCall == \E round \in Rounds : ForgetConnection(round)
BuildNotaryConnCall == \E round \in Rounds : BuildNotaryConn(round)
ForgetNotaryConnCall == \E round \in Rounds : ForgetNotaryConn(round)
BuildDKGConnCall == \E round \in Rounds : BuildDKGConn(round)
ForgetDKGConnCall == \E round \in Rounds : ForgetDKGConn(round)

NextPeerSet ==
  \/ BuildConnectionCall
  \/ ForgetConnectionCall
  \/ BuildNotaryConnCall
  \/ ForgetNotaryConnCall
  \/ BuildDKGConnCall
  \/ ForgetDKGConnCall

\* The sets of the governance do not change; the first round has two
\* chains and the second one. A lookup of the first round may fail.
GovSetConfigs ==
  { [dkg |-> [r \in Rounds |-> d[r + 1]],
     notary |-> [r \in Rounds |-> [c \in Chains |->
                   IF r = 0 THEN n[c + 1] ELSE IF c = 0 THEN n[3] ELSE Failed]]] :
      d \in DKGSetChoices \X (DKGSetChoices \ {Failed}),
      n \in NotarySetChoices \X NotarySetChoices \X (NotarySetChoices \ {Failed}) }

InitPeerSet ==
  /\ InitApp
  /\ GetNumChains(0) = 2 /\ GetNumChains(1) = 1
  /\ InitMore
  /\ govSets \in GovSetConfigs
  /\ wire = NoWire
  /\ ps = NewPeerSet
  /\ psLast = NoPeerSetCall

SpecPeerSet == InitPeerSet /\ [][NextPeerSet]_vars

\* ------------------------------------------------ timestamps on the wire
\* A time.Time holds instants UnixNano cannot give: the nanoseconds of the
\* model's times reach from the least signed value to the greatest unsigned
\* one.
WireInstants == (0 - 2^(TimeBits - 1))..(2^TimeBits - 1)
WireTimes == [nano : WireInstants, loc : {"UTC", "Local"}]

\* t.UTC().UnixNano(): the nanoseconds when they fit the signed integer;
\* otherwise the result is undefined, any signed integer
UnixNano(t) == IF t.nano \in Instants THEN {t.nano} ELSE Instants

\* rlpTimestamp.EncodeRLP: the values it may write
rlpTimestampEncodeRLP(t) == {ToUnsigned(n) : n \in UnixNano(t)}

\* A block as far as its times go: Timestamp and Finalization.Timestamp
WireBlocks == [timestamp : WireTimes, finalization : WireTimes]

\* Block.EncodeRLP with FinalizationResult.EncodeRLP inside
WireEncode ==
  /\ wire.pc = "idle"
  /\ \E b \in WireBlocks :
       \E nt \in rlpTimestampEncodeRLP(b.timestamp),
          nf \in rlpTimestampEncodeRLP(b.finalization) :
         wire' = [pc |-> "encoded", block |-> b,
                  bytes |-> [timestamp |-> nt, finalization |-> nf],
                  decoded |-> <<>>]
  /\ UNCHANGED <<gov, peerVars, appVars, last, pp, chainLock, threadVars,
                 moreVars>>

\* Block.DecodeRLP with FinalizationResult.DecodeRLP inside
WireDecode ==
  /\ wire.pc = "encoded"
  /\ wire' = [wire EXCEPT
       !.pc = "decoded",
       !.decoded = [timestamp |-> DecodeTimestamp(wire.bytes.timestamp),
                    finalization |-> DecodeTimestamp(wire.bytes.finalization)]]
  /\ UNCHANGED <<gov, peerVars, appVars, last, pp, chainLock, threadVars,
                 moreVars>>

\* The decoded block is handed on
WireDone ==
  /\ wire.pc = "decoded"
  /\ wire' = NoWire
  /\ UNCHANGED <<gov, peerVars, appVars, last, pp, chainLock, threadVars,
                 moreVars>>

NextWire == WireEncode \/ WireDecode \/ WireDone

InitWire == Init /\ \A r \in Rounds : GetNumChains(r) = 2

SpecWire == InitWire /\ [][NextWire]_vars

\* ------------------------------- the guarded writes of several goroutines
\* LevelDBBackedDB holds no lock of its own: a guarded write is a read of
\* the database followed by a Put, and another goroutine may run between
\* the two.  Has, Get and Put of leveldb are each atomic.
GuardedWrites == {"PutDKGPrivateKey", "PutBlock", "PutCompactionChainTipInfo"}
WriteIds == {1, 2}
WriteVals == {1, 2}

\* The key a guarded write is about and the bytes it puts there
writeKey(c) ==
  IF c.op = "PutDKGPrivateKey" THEN getDKGPrivateKeyKey(c.id)
  ELSE IF c.op = "PutBlock" THEN getBlockKey(c.id)
  ELSE compactionChainTipInfoKey
writeBytes(c) ==
  IF c.op = "PutDKGPrivateKey" THEN EncodeDKG("prv", c.val)
  ELSE IF c.op = "PutBlock"
  THEN EncodeBlock(StoreBlock(c.id, [nano |-> 0, loc |-> "UTC"], c.val))
  ELSE EncodeTipInfo([hash |-> c.val, height |-> c.id])

\* The check a guarded write makes before its Put: true when it refuses
writeRefused(c) ==
  IF c.op = "PutDKGPrivateKey" THEN dkgPrivateKeyExists(c.id)
  ELSE IF c.op = "PutBlock" THEN internalHasBlock(getBlockKey(c.id))
  ELSE tipHeightInvalid(internalGetCompactionChainTipInfo, c.id)
writeErr(c) ==
  IF c.op = "PutDKGPrivateKey" THEN ErrDKGPrivateKeyExists
  ELSE IF c.op = "PutBlock" THEN ErrBlockExists
  ELSE ErrInvalidCompactionChainTipHeight

\* A check that lets every write through
writeNeverRefused(c) == FALSE

WriteDone(w, c, err) ==
  [w |-> w, n |-> c.calls, op |-> c.op, id |-> c.id, val |-> c.val, err |-> err]

writersOthersUnchanged ==
  UNCHANGED <<gov, peerVars, wire, appVars, last, pp, chainLock, pw, lockVars,
              dbLast, moreButWriters>>

\* A goroutine calls PutDKGPrivateKey(id, val), PutBlock of the block with
\* hash id or PutCompactionChainTipInfo(val, id)
WriteStart(w, op, id, val) ==
  LET c == writers.goroutine[w] IN
  /\ c.pc = "idle"
  /\ c.calls < MaxWrites
  /\ writers' = [writers EXCEPT !.goroutine[w] =
                   [pc |-> "check", op |-> op, id |-> id, val |-> val,
                    calls |-> c.calls + 1]]
  /\ UNCHANGED <<db, tipPuts>>
  /\ writersOthersUnchanged

\* The read of the database and the return with an error when it refuses
WriteCheck(w) ==
  LET c == writers.goroutine[w] IN
  /\ c.pc = "check"
  /\ IF writeRefused(c)
     THEN writers' = [writers EXCEPT
                        !.goroutine[w] = [c EXCEPT !.pc = "idle"],
                        !.done = @ \cup {WriteDone(w, c, writeErr(c))}]
     ELSE writers' = [writers EXCEPT !.goroutine[w] = [c EXCEPT !.pc = "put"]]
  /\ UNCHANGED <<db, tipPuts>>
  /\ writersOthersUnchanged

\* lvl.db.Put(key, marshaled, nil) and the return without an error
WritePut(w) ==
  LET c == writers.goroutine[w] IN
  /\ c.pc = "put"
  /\ dbPut(writeKey(c), writeBytes(c))
  /\ tipPuts' = IF c.op = "PutCompactionChainTipInfo" THEN tipPuts + 1
                ELSE tipPuts
  /\ writers' = [writers EXCEPT
                   !.goroutine[w] = [c EXCEPT !.pc = "idle"],
                   !.done = @ \cup {WriteDone(w, c, NoErr)}]
  /\ writersOthersUnchanged

WriteStartCall ==
  \E w \in StoreWriters, op \in GuardedWrites, id \in WriteIds, val \in WriteVals :
    WriteStart(w, op, id, val)
WriteCheckCall == \E w \in StoreWriters : WriteCheck(w)
WritePutCall == \E w \in StoreWriters : WritePut(w)

NextWriters == WriteStartCall \/ WriteCheckCall \/ WritePutCall

InitWriters == Init /\ \A r \in Rounds : GetNumChains(r) = 2

SpecWriters == InitWriters /\ [][NextWriters]_vars

\* ------------------------------------------------- the acks of a block
\* What a call that reads no state of the node leaves alone
nodeUnchanged ==
  UNCHANGED <<gov, peerVars, wire, appVars, last, pp, chainLock, threadVars>>

\* b.IsAcking(hash) of a block with the acks given
IsAckingCall ==
  /\ acking.pc = "none"
  /\ \E acks \in SortedAcks, hash \in AckHashes :
       acking' = [pc |-> "returned", acks |-> acks, hash |-> hash,
                  result |-> IsAcking(acks, hash)]
  /\ UNCHANGED moreButAcking
  /\ nodeUnchanged

IsAckingReturn ==
  /\ acking.pc = "returned"
  /\ acking' = NoAcking
  /\ UNCHANGED moreButAcking
  /\ nodeUnchanged

NextAcks == IsAckingCall \/ IsAckingReturn

InitAcks == Init /\ \A r \in Rounds : GetNumChains(r) = 2

SpecAcks == InitAcks /\ [][NextAcks]_vars

\* ------------------------------------------- the queues of blocks in use
\* A queue of one of the two types is made
QueueNew(kind) ==
  /\ queue.kind = "none"
  /\ queue' = [NoQueue EXCEPT !.kind = kind]

\* heap.Push(&bs, block): the block is a new one, its hash met for the
\* first time
QueuePush(round, height, finalization) ==
  /\ queue.kind # "none"
  /\ queue.pushes < MaxPushes
  /\ queue' = [queue EXCEPT
       !.bs = heapPush(queue.kind, queue.bs,
                QueueBlock(queue.pushes + 1, round, height, finalization)),
       !.pushes = @ + 1,
       !.ret = NoQueueBlock]

\* heap.Pop(&bs)
QueuePop ==
  /\ queue.kind # "none"
  /\ Len(queue.bs) > 0
  /\ LET r == heapPop(queue.kind, queue.bs) IN
       queue' = [queue EXCEPT !.bs = r.bs, !.ret = r.ret]

\* The queue is dropped once it is empty again
QueueDrop ==
  /\ queue.kind # "none"
  /\ queue.pushes > 0
  /\ Len(queue.bs) = 0
  /\ queue' = NoQueue

QueueNewCall ==
  /\ \E kind \in QueueKinds : QueueNew(kind)
  /\ UNCHANGED moreButQueue /\ nodeUnchanged
QueuePushCall ==
  /\ \E round \in Rounds, height \in 0..1, finalization \in 0..MaxFinalization :
       /\ queue.kind = "BlocksByPosition" => finalization = 0
       /\ queue.kind = "BlocksByFinalizationHeight" => round = 0 /\ height = 0
       /\ QueuePush(round, height, finalization)
  /\ UNCHANGED moreButQueue /\ nodeUnchanged
QueuePopCall == QueuePop /\ UNCHANGED moreButQueue /\ nodeUnchanged
QueueDropCall == QueueDrop /\ UNCHANGED moreButQueue /\ nodeUnchanged

NextQueue == QueueNewCall \/ QueuePushCall \/ QueuePopCall \/ QueueDropCall

InitQueue == Init /\ \A r \in Rounds : GetNumChains(r) = 2

SpecQueue == InitQueue /\ [][NextQueue]_vars

\* ----------------------------------------------------- the calls on a peer
MarkTransactionCall ==
  /\ \E hash \in PeerTxs : peer' \in MarkTransaction(peer, hash)
  /\ UNCHANGED moreButPeer /\ nodeUnchanged
MarkBlockCall ==
  /\ \E hash \in PeerBlocks : peer' \in MarkBlock(peer, hash)
  /\ UNCHANGED moreButPeer /\ nodeUnchanged
SendTransactionsCall ==
  /\ \E txs \in PeerTxLists : peer' = SendTransactions(peer, txs)
  /\ UNCHANGED moreButPeer /\ nodeUnchanged
AsyncSendTransactionsCall ==
  /\ \E txs \in PeerTxLists : peer' = AsyncSendTransactions(peer, txs)
  /\ UNCHANGED moreButPeer /\ nodeUnchanged
SendNewBlockHashesCall ==
  /\ \E block \in PeerBlocks : peer' = SendNewBlockHashes(peer, <<block>>)
  /\ UNCHANGED moreButPeer /\ nodeUnchanged
SendNewBlockCall ==
  /\ \E block \in PeerBlocks : peer' = SendNewBlock(peer, block)
  /\ UNCHANGED moreButPeer /\ nodeUnchanged
AsyncSendNewBlockHashCall ==
  /\ \E block \in PeerBlocks : peer' = AsyncSendNewBlockHash(peer, block)
  /\ UNCHANGED moreButPeer /\ nodeUnchanged
AsyncSendNewBlockCall ==
  /\ \E block \in PeerBlocks : peer' = AsyncSendNewBlock(peer, block)
  /\ UNCHANGED moreButPeer /\ nodeUnchanged
AsyncSendLatticeBlockCall ==
  /\ \E block \in PeerLatticeBlocks : peer' = AsyncSendLatticeBlock(peer, block)
  /\ UNCHANGED moreButPeer /\ nodeUnchanged
AsyncSendPullBlocksCall ==
  /\ \E hashes \in PeerPulls : peer' = AsyncSendPullBlocks(peer, hashes)
  /\ UNCHANGED moreButPeer /\ nodeUnchanged
BroadcastTurn ==
  /\ \E kind \in BroadcastKinds :
       /\ broadcastReady(peer, kind)
       /\ peer' = broadcast(peer, kind)
  /\ UNCHANGED moreButPeer /\ nodeUnchanged

NextPeer ==
  \/ MarkTransactionCall
  \/ MarkBlockCall
  \/ SendTransactionsCall
  \/ AsyncSendTransactionsCall
  \/ SendNewBlockHashesCall
  \/ SendNewBlockCall
  \/ AsyncSendNewBlockHashCall
  \/ AsyncSendNewBlockCall
  \/ AsyncSendLatticeBlockCall
  \/ AsyncSendPullBlocksCall
  \/ BroadcastTurn

InitPeer == Init /\ \A r \in Rounds : GetNumChains(r) = 2

SpecPeer == InitPeer /\ [][NextPeer]_vars

\* ------------------------------- the worker of PreparePayload and the lock
\* What the steps of the worker on the lock leave alone
workerOthersUnchanged ==
  UNCHANGED <<gov, peerVars, wire, moreButRWLock, threadVars, appVars, last>>

\* d.chainRLock(position.ChainID): the worker waits while a writer holds the
\* lock of the chain
WorkerRLock ==
  /\ Idle
  /\ pp.workerPc = "RLock"
  /\ ~chainLock[pp.position.chainID]
  /\ rwLock' = [rwLock EXCEPT !.readers[pp.position.chainID] = @ + 1]
  /\ pp' = [pp EXCEPT !.workerPc = "locked"]
  /\ UNCHANGED chainLock
  /\ workerOthersUnchanged

\* preparePayload under the read lock, up to its return
WorkerRun ==
  /\ Idle
  /\ pp.workerPc = "locked"
  /\ pp' = [pp EXCEPT !.w = preparePayload(pp.position,
                                           [pp.env EXCEPT !.lockLate = pp.softDone]),
                      !.workerPc = "RUnlock"]
  /\ UNCHANGED <<chainLock, rwLock>>
  /\ workerOthersUnchanged

\* A worker that returns from preparePayload without the deferred call
WorkerKeepsRLock ==
  /\ Idle
  /\ pp.workerPc = "RUnlock"
  /\ pp' = [pp EXCEPT !.workerPc = IF pp.w.err # NoErr THEN "sendErr"
                                   ELSE "sendPayload"]
  /\ UNCHANGED <<chainLock, rwLock>>
  /\ workerOthersUnchanged

\* defer d.chainRUnlock(position.ChainID) as preparePayload returns
WorkerRUnlock ==
  /\ Idle
  /\ pp.workerPc = "RUnlock"
  /\ rwLock' = [rwLock EXCEPT !.readers[pp.position.chainID] = @ - 1]
  /\ pp' = [pp EXCEPT !.workerPc = IF pp.w.err # NoErr THEN "sendErr"
                                   ELSE "sendPayload"]
  /\ UNCHANGED chainLock
  /\ workerOthersUnchanged

\* BlockConfirmed or BlockDelivered of a block of the chain is called and
\* goes into d.chainLock(chainID)
WriterArrives(chain) ==
  /\ Idle /\ ~panicked
  /\ ~rwLock.waiting[chain]
  /\ rwLock' = [rwLock EXCEPT !.waiting[chain] = TRUE]
  /\ UNCHANGED <<chainLock, pp>>
  /\ workerOthersUnchanged

\* Lock() of the RWMutex returns: no writer and no reader holds the lock
WriterLock(chain) ==
  /\ Idle
  /\ rwLock.waiting[chain]
  /\ ~chainLock[chain]
  /\ rwLock.readers[chain] = 0
  /\ chainLock' = [chainLock EXCEPT ![chain] = TRUE]
  /\ rwLock' = [rwLock EXCEPT !.waiting[chain] = FALSE]
  /\ UNCHANGED pp
  /\ workerOthersUnchanged

\* PreparePayload is asked for the first block of a chain
WorkerPositions == { Position(0, c, 0) : c \in Chains }

WorkerStartCall ==
  \E pos \in WorkerPositions, env \in PrepareEnvs : PrepareStart(pos, env)
WriterArrivesCall == \E c \in Chains : WriterArrives(c)
WriterLockCall == \E c \in Chains : WriterLock(c)
\* The root of the first chain is stored before or while the worker runs
WorkerRootCall == DoStoreChainRoot(0)

NextWorker ==
  \/ WorkerStartCall
  \/ SoftLimit
  \/ HardLimit
  \/ WorkerRLock
  \/ WorkerRun
  \/ WorkerRUnlock
  \/ WorkerSendErr
  \/ WorkerSendPayload
  \/ WorkerSendDone
  \/ CallerWakeDeadline
  \/ CallerWakeDone
  \/ CallerSelectErr
  \/ CallerSelectPayload
  \/ PrepareEnd
  \/ WriterArrivesCall
  \/ WriterLockCall
  \/ ChainUnlockCall
  \/ LockedConfirmCall
  \/ WorkerRootCall
  \/ Return

InitWorker == Init /\ \A r \in Rounds : GetNumChains(r) = 2

\* The goroutines run: a step of the worker that can be taken is taken, a
\* call returns, a writer gives its lock back, and the RWMutex lets a
\* goroutine that waits for it in when the lock is free again and again
WorkerFairness ==
  /\ SF_vars(WorkerRLock)
  /\ WF_vars(WorkerRun)
  /\ WF_vars(WorkerRUnlock)
  /\ WF_vars(WorkerSendErr)
  /\ WF_vars(WorkerSendPayload)
  /\ WF_vars(WorkerSendDone)
  /\ WF_vars(Return)
  /\ \A c \in Chains : WF_vars(ChainUnlock(c)) /\ SF_vars(WriterLock(c))

SpecWorker == InitWorker /\ [][NextWorker]_vars /\ WorkerFairness

\* ------------------------------ confirmed after VerifyBlock, four blocks
\* Consensus confirms a block with BlockConfirmed right after VerifyBlock
\* returned OK for it and delivers the blocks in the order it confirmed
\* them. Four blocks and three deliveries: an empty block that opens a
\* round, a block of each of two chains, and a block that waits behind one.
OverlayBlocks == 4
OverlayHeight == 3

OverlayPayloads ==
  { NilPayload, EncodeTxs(<<MkTx(1, 0, CheapShape)>>),
    EncodeTxs(<<MkTx(1, 0, HeavyShape)>>) }

VerifiedConfirm(block) ==
  /\ VerifyBlock(block).status = VerifyOK
  /\ blockConfirmedOf(block, OverlayBlocks)

VerifiedConfirmCall ==
  /\ Idle
  /\ \E pos \in NextPositions, payload \in OverlayPayloads :
       VerifiedConfirm(MkBlock(nextHash + 1, pos, payload, HeadWitness, 1))

\* The hash of the block confirmed first among those not delivered: the
\* hashes are given in the order of the confirmations
OldestConfirmed ==
  LET hs == { confirmedBlocks[c][1].hash :
                c \in { x \in Chains : confirmedBlocks[x] # <<>> } }
  IN CHOOSE h \in hs : \A g \in hs : h <= g

DeliverOldestCall ==
  /\ Idle
  /\ CurrentBlock.number < OverlayHeight
  /\ \E c \in Chains :
       /\ confirmedBlocks[c] # <<>>
       /\ confirmedBlocks[c][1].hash = OldestConfirmed
       /\ DoBlockDelivered(confirmedBlocks[c][1].hash,
                           confirmedBlocks[c][1].position,
                           [height |-> CurrentBlock.number + 1])

NextOverlay ==
  \/ VerifiedConfirmCall
  \/ DeliverOldestCall
  \/ StoreChainRootCall
  \/ Return

SpecOverlay == Init /\ [][NextOverlay]_vars

\* ------------------------------------------------------------ properties
\* What the properties speak about, read off the state and not off the maps
\* the block chain keeps.
ConfirmedTxs(chain) == AllTxs(confirmedBlocks[chain])
CostOr0(cost) == IF cost = None THEN 0 ELSE cost
PendingCost(chain, a) == CostOr0(addressCost[chain][a])
ExpectedNext(chain, a) ==
  IF a \in SendersOf(ConfirmedTxs(chain))
  THEN LastNonce(ConfirmedTxs(chain), a) + 1
  ELSE stateDB[chainRoot[chain]].nonce[a]
EffectiveBalance(chain, a) ==
  stateDB[chainRoot[chain]].balance[a] - SumCost(ConfirmedTxs(chain), a)
RECURSIVE SumGas(_)
SumGas(txs) == IF txs = <<>> THEN 0 ELSE Head(txs).gas + SumGas(Tail(txs))

IsRun(txs, n) == \A i \in DOMAIN txs : txs[i].nonce = n + i - 1
IsContiguous(q) == \A i \in 1..(Len(q) - 1) : q[i + 1].nonce = q[i].nonce + 1

GateActive(pos) ==
  /\ pos.round > 0
  /\ gov.numChains[pos.round] # gov.numChains[pos.round - 1]
  /\ deliveredRound < pos.round
WitnessPasses(w) ==
  /\ w.data.enc = "hash"
  /\ w.height <= CurrentBlock.number
  /\ ledger[w.height + 1].hash = w.data.hash
  /\ ledger[w.height + 1].root \notin pruned
PreviousConfirmed(pos) ==
  pos.height = 0 \/ chainLastHeight[pos.chainID] = pos.height - 1
RootLoadable(chain) ==
  chainRoot[chain] # None /\ chainRoot[chain] \notin pruned

Verified == last.op = "VerifyBlock"
Prepared_ == last.op = "PreparePayload"
\* The block reached the checks of VerifyBlock on its payload
ReachedPayloadChecks ==
  /\ Verified
  /\ WitnessPasses(last.block.witness)
  /\ PreviousConfirmed(last.block.position)
  /\ ~GateActive(last.block.position)
  /\ RootLoadable(last.block.position.chainID)
  /\ last.block.payload.enc = "list"

\* C1: when VerifyBlock returns OK for a non-empty payload, the nonces of
\* every sender, in payload order, are n, n+1, ... with n the expected next
\* nonce of the sender on the chain (last nonce in the confirmed blocks + 1,
\* else the nonce in the state at the root of the chain); a payload that
\* reaches the checks of the payload with a gap or with another first nonce
\* is Invalid.
C1_NonceRun ==
  Verified /\ PayloadLen(last.block.payload) > 0 =>
    LET txs == last.block.payload.txs
        chain == last.block.position.chainID
        runs == \A a \in SendersOf(txs) :
                  IsRun(TxsOfSender(txs, a), ExpectedNext(chain, a))
    IN /\ last.status = VerifyOK => runs
       /\ ReachedPayloadChecks /\ ~runs => last.status = VerifyInvalidBlock

C1_Witness ==
  /\ Verified /\ last.status = VerifyOK
  /\ Len(last.block.payload.txs) = 2
  /\ Cardinality(SendersOf(last.block.payload.txs)) = 1
  /\ last.block.payload.txs[1].from
       \in SendersOf(ConfirmedTxs(last.block.position.chainID))

\* C2: BlockConfirmed(b) adds, for every sender of b, the cost of its
\* transactions in b to the pending cost of the sender on the chain of b and
\* makes its last nonce in b the pending nonce; BlockDelivered of b takes
\* the same sum off again; so the pending cost is always the cost of the
\* sender's transactions in the confirmed, undelivered blocks of the chain.
C2_Step ==
  LET b == last'.block
      c == b.position.chainID
  IN
  /\ last'.op = "BlockConfirmed" /\ ~panicked' =>
       \A a \in SendersOf(b.payload.txs) :
         /\ CostOr0(addressCost'[c][a])
              = PendingCost(c, a) + SumCost(b.payload.txs, a)
         /\ addressNonce'[c][a] = LastNonce(b.payload.txs, a)
  /\ last'.op = "BlockDelivered" /\ ~panicked' =>
       LET blk == confirmedBlocks[c][GetConfirmedBlockByHash(c, b.hash)] IN
       \A a \in Addrs :
         CostOr0(addressCost'[c][a])
           = PendingCost(c, a) - SumCost(blk.txs, a)

C2_CostConservation ==
  /\ [](\A c \in Chains, a \in Addrs :
          PendingCost(c, a) = SumCost(ConfirmedTxs(c), a))
  /\ [][C2_Step]_vars

C2_Witness ==
  /\ last.op = "BlockDelivered" /\ ~panicked
  /\ \E c \in Chains, a \in Addrs :
       /\ PendingCost(c, a) > 0
       /\ Len(TxsOfSender(ConfirmedTxs(c), a)) = 2

\* C3 as stated: while the number of chains of round r differs from that of
\* round r-1 and round r is not delivered, PreparePayload at round r returns
\* empty bytes without error and VerifyBlock (of a block with a witness
\* that passes) returns OK exactly for an empty payload.
C3_Original ==
  GateActive(last.block.position) =>
    /\ Prepared_ => PayloadLen(last.block.payload) = 0 /\ last.err = NoErr
    /\ Verified /\ WitnessPasses(last.block.witness) =>
         (last.status = VerifyOK <=> PayloadLen(last.block.payload) = 0)

\* C3: the same, VerifyBlock taken for the blocks that pass its checks of
\* the witness and of the previous height, which come before the check of
\* the round: of these a block with an empty payload is OK and one with
\* a payload is Invalid.
C3_RoundGate ==
  GateActive(last.block.position) =>
    /\ Prepared_ => PayloadLen(last.block.payload) = 0 /\ last.err = NoErr
    /\ Verified /\ WitnessPasses(last.block.witness)
         /\ PreviousConfirmed(last.block.position) =>
           /\ PayloadLen(last.block.payload) = 0 => last.status = VerifyOK
           /\ PayloadLen(last.block.payload) > 0 => last.status = VerifyInvalidBlock

C3_Witness ==
  /\ GateActive(last.block.position)
  /\ Verified /\ WitnessPasses(last.block.witness)
  /\ PreviousConfirmed(last.block.position)
  /\ last.block.position.height > 0
  /\ last.block.payload.enc = "list"
  /\ RootLoadable(last.block.position.chainID)
  /\ last.status = VerifyInvalidBlock

\* C4: every transaction of a payload VerifyBlock finds OK, and every
\* transaction PreparePayload puts into a payload, has a sender with
\* sender mod numChains(round) = chain id of the block.
C4_Routing ==
  LET pos == last.block.position
      routed == \A i \in DOMAIN last.block.payload.txs :
                  last.block.payload.txs[i].from % gov.numChains[pos.round]
                    = pos.chainID
  IN /\ Verified /\ last.status = VerifyOK /\ PayloadLen(last.block.payload) > 0
          => routed
     /\ Prepared_ /\ PayloadLen(last.block.payload) > 0 => routed

C4_Witness ==
  /\ Verified /\ last.status = VerifyOK
  /\ PayloadLen(last.block.payload) > 0
  /\ Len(last.block.payload.txs) > 0
  /\ gov.numChains[last.block.position.round] = 2
  /\ last.block.position.chainID = 1

\* The queue of every address in the pool the call met
PoolQueues == { last.env.txsMap[a] : a \in Addrs }

\* C5 as stated: for a pool whose queues are ascending by nonce, the payload
\* PreparePayload returns for a position is not Invalid for VerifyBlock at
\* that position in the same state.
C5_Original ==
  Prepared_ /\ last.err = NoErr /\ (\A q \in PoolQueues : IsAscending(q)) =>
    VerifyBlock(last.block).status # VerifyInvalidBlock

\* C5: for a pool whose queues carry consecutive nonces, the payload
\* PreparePayload returns for a position is not Invalid for VerifyBlock at
\* that position in the same state.
C5_Valid ==
  Prepared_ /\ last.err = NoErr /\ (\A q \in PoolQueues : IsContiguous(q)) =>
    VerifyBlock(last.block).status # VerifyInvalidBlock

C5_Witness ==
  /\ Prepared_ /\ last.err = NoErr
  /\ \A q \in PoolQueues : IsContiguous(q)
  /\ PayloadLen(last.block.payload) > 0
  /\ Len(last.block.payload.txs) = 2
  /\ \E a \in Addrs : Len(last.env.txsMap[a]) > Len(TxsOfSender(last.block.payload.txs, a))
  /\ VerifyBlock(last.block).status = VerifyOK

\* The call of PreparePayload has returned and its deadline fired before
\* the worker had sent on doneCh
ReturnedAfterDeadline == pp.callerPc = "returned" /\ pp.firedFirst

PrepareFails(pos, env) ==
  /\ ~env.lockLate
  /\ ~GateActive(pos)
  /\ \/ ~PreviousConfirmed(pos)
     \/ /\ chainRoot[pos.chainID] # None
        /\ chainRoot[pos.chainID] \in pruned \/ env.pendingErr

C8_RetryLater ==
  Verified /\ WitnessPasses(last.block.witness) =>
    LET pos == last.block.position IN
    /\ pos.height > 0 /\ chainLastHeight[pos.chainID] # pos.height - 1
         => last.status = VerifyRetryLater /\ last.reason = "previous block"
    /\ pos.height = 0 => last.reason # "previous block"
    /\ pos.height = 0 /\ RootLoadable(pos.chainID)
         /\ PayloadLen(last.block.payload) = 0 => last.status = VerifyOK

C8_Witness ==
  /\ Verified /\ WitnessPasses(last.block.witness)
  /\ last.block.position.height = 2
  /\ chainLastHeight[last.block.position.chainID] = 0
  /\ PayloadLen(last.block.payload) > 0
  /\ last.status = VerifyRetryLater

\* The balance of the sender of the k-th transaction after that transaction
RunningBalance(chain, txs, k) ==
  EffectiveBalance(chain, txs[k].from) - SumCost(SubSeq(txs, 1, k), txs[k].from)

\* C9: VerifyBlock starts for every sender from the balance at the root of
\* the chain minus the pending cost of the sender and takes off the cost of
\* each transaction in payload order; it returns OK only if the balance of
\* every sender is >= 0 after each of its transactions, and Invalid for a
\* payload that reaches this check and drives a balance below 0.
C9_SequentialBalance ==
  Verified /\ PayloadLen(last.block.payload) > 0 =>
    LET txs == last.block.payload.txs
        chain == last.block.position.chainID
        covered == \A k \in DOMAIN txs : RunningBalance(chain, txs, k) >= 0
    IN /\ last.status = VerifyOK => covered
       /\ ReachedPayloadChecks /\ ~covered => last.status = VerifyInvalidBlock

C9_Witness ==
  /\ ReachedPayloadChecks
  /\ last.reason = "insufficient funds"
  /\ PendingCost(last.block.position.chainID, last.block.payload.txs[1].from) > 0
  /\ \A k \in DOMAIN last.block.payload.txs :
       Cost(last.block.payload.txs[k])
         <= stateDB[chainRoot[last.block.position.chainID]].balance[
              last.block.payload.txs[k].from]

\* C10: VerifyBlock returns Invalid when the gas of the payload exceeds the
\* block gas limit governance sets for the round of the block and rejects
\* no payload for its gas when the sum is within that limit; the gas of a
\* payload of PreparePayload is within the limit of the round of its
\* position.
C10_GovernanceLimit ==
  LET limit == gov.blockGasLimit[last.block.position.round] IN
  /\ ReachedPayloadChecks =>
       /\ SumGas(last.block.payload.txs) > limit
            => last.status = VerifyInvalidBlock
       /\ last.reason = "block gas limit"
            => SumGas(last.block.payload.txs) > limit
  /\ Prepared_ /\ PayloadLen(last.block.payload) > 0 =>
       SumGas(last.block.payload.txs) <= limit

\* C11: VerifyBlock returns Invalid for a block whose payload holds a
\* transaction with a gas price below the minimum gas price, whatever the
\* other fields of the transaction.
C11_MinGasPrice ==
  ReachedPayloadChecks
    /\ (\E i \in DOMAIN last.block.payload.txs :
          last.block.payload.txs[i].price < MinGasPrice)
    => last.status = VerifyInvalidBlock

\* C12: the witness checks of VerifyBlock come first and short-circuit in
\* order: witness data that does not decode gives Invalid; otherwise a
\* committed height below the witness height gives RetryLater; otherwise no
\* committed block at the witness height, or one with another hash, gives
\* Invalid; otherwise no state at the root of that block gives Invalid;
\* whatever the payload and the confirmed blocks of the chain are.
WitnessBlockMatches(w) ==
  /\ w.height + 1 \in DOMAIN ledger
  /\ ledger[w.height + 1].hash = w.data.hash
C12_WitnessFirst ==
  Verified =>
    LET w == last.block.witness IN
    /\ w.data.enc # "hash" => last.status = VerifyInvalidBlock
    /\ w.data.enc = "hash" /\ CurrentBlock.number < w.height
         => last.status = VerifyRetryLater
    /\ w.data.enc = "hash" /\ w.height <= CurrentBlock.number
         /\ ~WitnessBlockMatches(w)
         => last.status = VerifyInvalidBlock
    /\ w.data.enc = "hash" /\ w.height <= CurrentBlock.number
         /\ WitnessBlockMatches(w) /\ ledger[w.height + 1].root \in pruned
         => last.status = VerifyInvalidBlock
\* A witness of a height not committed yet, on a payload that does not decode
\* and a chain that has a confirmed block, is answered RetryLater
C12_Witness ==
  /\ Verified
  /\ last.block.witness.data.enc = "hash"
  /\ CurrentBlock.number < last.block.witness.height
  /\ last.block.payload = GarbagePayload
  /\ chainLastHeight[last.block.position.chainID] # None
  /\ last.status = VerifyRetryLater

\* C13: PrepareWitness(h) succeeds exactly when the committed height it
\* reads is at least h; it then returns {H, bytes} with H >= h where H and
\* bytes are the number and the encoded hash of one committed block, also
\* when BlockDelivered moves the head while it runs; otherwise it fails with
\* the height-too-low error.
C13_WitnessOfOneBlock ==
  pw.pc = "done" =>
    /\ pw.err = NoErr <=> pw.compared >= pw.consensusHeight
    /\ pw.err # NoErr => pw.err = ErrHeightTooLow
    /\ pw.err = NoErr =>
         /\ pw.witness.height >= pw.consensusHeight
         /\ pw.witness.height <= CurrentBlock.number
         /\ DecodeHash(pw.witness.data).ok
         /\ DecodeHash(pw.witness.data).hash
              = GetBlockByNumber(pw.witness.height).hash
\* PrepareWitness returned a witness of a block that BlockDelivered committed
\* between its two reads of the current block
C13_Witness ==
  /\ pw.pc = "done" /\ pw.err = NoErr
  /\ pw.witness.height > pw.compared

\* The confirmed block that a call of BlockDelivered names, and the account
\* state of the current block
DeliveredBlock(c, hash) == confirmedBlocks[c][GetConfirmedBlockByHash(c, hash)]
HeadState == stateDB[CurrentBlock.root]
HashesOf(blocks) == { blocks[k].hash : k \in DOMAIN blocks }

\* C14: a BlockDelivered that succeeds executes the block as an empty block
\* when its proposer id is zero and with its transactions otherwise, puts the
\* returned root in chainRoot of the chain of the block and takes the block
\* out of the confirmed blocks of that chain; the chain roots and confirmed
\* blocks of the other chains stay as they are; the committed height becomes
\* the finalization height, and the nonce and balance of every sender in the
\* committed state reflect each delivered transaction exactly once.
C14_Step ==
  last'.op = "BlockDelivered" /\ ~panicked' =>
    LET c == last'.block.position.chainID
        blk == DeliveredBlock(c, last'.block.hash)
    IN
    /\ CurrentBlock'.number = last'.block.witness.height
    /\ chainRoot'[c] = CurrentBlock'.root
    /\ blk.hash \notin HashesOf(confirmedBlocks'[c])
    /\ HashesOf(confirmedBlocks'[c]) = HashesOf(confirmedBlocks[c]) \ {blk.hash}
    /\ \A c2 \in Chains \ {c} :
         /\ chainRoot'[c2] = chainRoot[c2]
         /\ confirmedBlocks'[c2] = confirmedBlocks[c2]
    /\ IsEmpty(blk) => HeadState' = HeadState
    /\ \A a \in Addrs :
         /\ HeadState'.nonce[a] = HeadState.nonce[a] + Len(TxsOfSender(blk.txs, a))
         /\ HeadState'.balance[a] = HeadState.balance[a] - SumCost(blk.txs, a)
C14_Delivered == [][C14_Step]_vars
\* A block with two transactions of one sender was delivered while the other
\* chain has a chain root and a confirmed block of its own
C14_Witness ==
  /\ last.op = "BlockDelivered" /\ ~panicked
  /\ \E a \in Addrs : HeadState.nonce[a] = 2
  /\ \E c2 \in Chains \ {last.block.position.chainID} :
       chainRoot[c2] # None /\ confirmedBlocks[c2] # <<>>

\* C15: a BlockDelivered of a hash that is not among the confirmed blocks of
\* the chain, or of a block whose execution fails, aborts the node; the chain
\* root is not replaced, the block is not removed and no finalized block
\* event is sent.
C15_Step ==
  LET c == last'.block.position.chainID
      i == GetConfirmedBlockByHash(c, last'.block.hash)
      blk == confirmedBlocks[c][i]
      header == [number |-> last'.block.witness.height]
      fails == IF i = 0 THEN TRUE
               ELSE IF IsEmpty(blk) THEN ~ProcessEmptyBlock(header).ok
               ELSE ~ProcessBlock(header, blk.txs).ok
  IN
  last'.op = "BlockDelivered" /\ fails =>
    /\ panicked'
    /\ chainRoot' = chainRoot
    /\ confirmedBlocks' = confirmedBlocks
    /\ finalized' = finalized
C15_Fatal == [][C15_Step]_vars
\* A confirmed block failed to execute while its chain had a chain root
C15_Witness ==
  /\ last.op = "BlockDelivered" /\ panicked
  /\ GetConfirmedBlockByHash(last.block.position.chainID, last.block.hash) # 0
  /\ chainRoot[last.block.position.chainID] # None

\* C16: after BlockDelivered commits, exactly one finalized block event is
\* sent for every newly committed height, none skipped and none sent twice,
\* also when BlockDelivered calls of different chains interleave: no height
\* is in the events twice, and once every delivery has returned each
\* committed height above the genesis block is in the events.
C16_OncePerHeight ==
  /\ \A i, j \in DOMAIN finalized : i # j => finalized[i] # finalized[j]
  /\ (~panicked /\ \A t \in Threads : th[t].op # "BlockDelivered")
       => \A n \in 1..CurrentBlock.number : \E i \in DOMAIN finalized : finalized[i] = n

\* C17: while BlockConfirmed or BlockDelivered holds the lock of a chain no
\* other BlockConfirmed, BlockDelivered, PreparePayload worker or VerifyBlock
\* locked section of that chain runs, so nothing reads the confirmed blocks
\* or the chain root of the chain between the two writes of a delivery;
\* readers of one chain may run together; a thread waits only for a holder
\* on its own chain; and all threads of one chain use the one lock that
\* chainLocks holds for it, also when they first touch the chain together.
C17_ChainLocks ==
  /\ \A t1, t2 \in Threads :
       t1 # t2 /\ Holds(t1) /\ Holds(t2) /\ th[t1].chain = th[t2].chain
         => th[t1].op \in Readers /\ th[t2].op \in Readers
  /\ \A t1, t2 \in Threads :
       th[t1].pc = "remove" /\ th[t2].chain = th[t1].chain
         => th[t2].pc # "read"
  /\ \A t \in Threads :
       th[t].pc \in LockedPcs \cup {"lock"} => th[t].v = chainLocks[th[t].chain]
  /\ \A t1, t2 \in Threads :
       th[t1].pc = "lock" /\ Holds(t2) /\ th[t2].v = th[t1].v
         => th[t2].chain = th[t1].chain
\* Two threads touched a chain first at the same time; one holds its lock for
\* writing and the other waits, while a reader holds the lock of another chain
C17_Witness ==
  \E t1, t2, t3 \in Threads :
    /\ HoldsWrite(t1) /\ th[t1].missed
    /\ th[t2].pc = "lock" /\ th[t2].missed /\ th[t2].chain = th[t1].chain
    /\ Holds(t3) /\ th[t3].chain # th[t1].chain

\* The tip that the database holds: (zero hash, 0) while none is stored
StoredTip ==
  IF compactionChainTipInfoKey \in DOMAIN db
  THEN [hash |-> db[compactionChainTipInfoKey].hash,
        height |-> db[compactionChainTipInfoKey].height]
  ELSE [hash |-> ZeroHash, height |-> 0]

\* C18: PutCompactionChainTipInfo(hash, h') succeeds exactly when h' is the
\* height of the current tip plus one, no stored tip counting as height 0;
\* then the tip becomes (hash, h'), otherwise the call fails with the
\* invalid-tip-height error and the stored tip stays; the height of the tip
\* is the number of calls that succeeded, and GetCompactionChainTipInfo
\* returns (zero hash, 0) while no tip is stored.
C18_Step ==
  /\ dbLast'.op = "PutCompactionChainTipInfo" =>
       /\ dbLast'.err = NoErr <=> dbLast'.height = StoredTip.height + 1
       /\ dbLast'.err = NoErr =>
            StoredTip' = [hash |-> dbLast'.hash, height |-> dbLast'.height]
       /\ dbLast'.err # NoErr =>
            /\ dbLast'.err = ErrInvalidCompactionChainTipHeight
            /\ db' = db
  /\ dbLast'.op = "GetCompactionChainTipInfo" =>
       /\ dbLast'.hash = StoredTip.hash /\ dbLast'.height = StoredTip.height
       /\ compactionChainTipInfoKey \notin DOMAIN db =>
            dbLast'.hash = ZeroHash /\ dbLast'.height = 0
C18_TipInvariant ==
  /\ [](StoredTip.height = tipPuts)
  /\ [][C18_Step]_vars
\* The tip was moved twice and a put of another height was refused
C18_Witness ==
  /\ tipPuts = 2
  /\ dbLast.op = "PutCompactionChainTipInfo"
  /\ dbLast.err = ErrInvalidCompactionChainTipHeight

\* C19: once PutDKGPrivateKey(r, k1) has succeeded every later
\* PutDKGPrivateKey(r, k2) fails with the key-exists error and
\* GetDKGPrivateKey(r) keeps returning k1; GetDKGPrivateKey of a round never
\* written fails with the key-does-not-exist error; while
\* PutOrUpdateDKGMasterPrivateShares(r, s) always succeeds and
\* GetDKGMasterPrivateShares(r) returns the shares written last.
C19_Step ==
  LET r == dbLast'.round
      prvKey == getDKGPrivateKeyKey(r)
      sharesKey == getDKGMasterPrivateSharesKey(r)
  IN
  /\ \A k \in DOMAIN db : k.prefix = "dkg-prvs" => k \in DOMAIN db' /\ db'[k] = db[k]
  /\ dbLast'.op = "PutDKGPrivateKey" =>
       IF prvKey \in DOMAIN db
       THEN dbLast'.err = ErrDKGPrivateKeyExists
       ELSE dbLast'.err = NoErr /\ db'[prvKey].val = dbLast'.val
  /\ dbLast'.op = "GetDKGPrivateKey" =>
       IF prvKey \in DOMAIN db
       THEN dbLast'.err = NoErr /\ dbLast'.val = db[prvKey].val
       ELSE dbLast'.err = ErrDKGPrivateKeyDoesNotExist
  /\ dbLast'.op = "PutOrUpdateDKGMasterPrivateShares" =>
       dbLast'.err = NoErr /\ db'[sharesKey].val = dbLast'.val
  /\ dbLast'.op = "GetDKGMasterPrivateShares" /\ sharesKey \in DOMAIN db =>
       dbLast'.err = NoErr /\ dbLast'.val = db[sharesKey].val
  /\ dbLast'.op \notin {"PutOrUpdateDKGMasterPrivateShares", "none"} =>
       \A k \in DOMAIN db : k.prefix = "dkg-master-private-shares" => db'[k] = db[k]
C19_WriteOnce == [][C19_Step]_vars
\* A second key was refused for a round that has a key, and the shares of
\* that round were written over
C19_Witness ==
  /\ dbLast.op = "PutDKGPrivateKey" /\ dbLast.err = ErrDKGPrivateKeyExists
  /\ db[getDKGPrivateKeyKey(dbLast.round)].val # dbLast.val
  /\ getDKGMasterPrivateSharesKey(dbLast.round) \in DOMAIN db
  /\ db[getDKGMasterPrivateSharesKey(dbLast.round)].val = 2

\* Two blocks are equal when they have the same hash, the same instant as
\* their time and the same payload bytes
PayloadBytes(p) == IF p = None THEN 0 ELSE p
BlockEqual(a, b) ==
  /\ a.hash = b.hash
  /\ a.time.nano = b.time.nano
  /\ PayloadBytes(a.payload) = PayloadBytes(b.payload)

\* C20: PutBlock(b) succeeds exactly when no block is stored under b.hash;
\* when one is, it fails with the block-exists error and the stored block
\* stays; a block that was put is reported by HasBlock and GetBlock returns
\* a block equal to it; for a hash never put HasBlock is false and GetBlock
\* fails with the block-does-not-exist error.
C20_Step ==
  LET key == getBlockKey(dbLast'.hash)
      arg == StoreBlock(dbLast'.hash, dbLast'.time, dbLast'.payload)
  IN
  /\ dbLast'.op = "PutBlock" =>
       /\ dbLast'.err = NoErr <=> key \notin DOMAIN db
       /\ dbLast'.err # NoErr => dbLast'.err = ErrBlockExists /\ db' = db
       /\ dbLast'.err = NoErr =>
            /\ key \in DOMAIN db'
            /\ BlockEqual(DecodeBlock(db'[key]), arg)
            /\ \A k \in DOMAIN db : db'[k] = db[k]
  /\ dbLast'.op = "HasBlock" => (dbLast'.has <=> key \in DOMAIN db)
  /\ dbLast'.op = "GetBlock" =>
       IF key \in DOMAIN db
       THEN dbLast'.err = NoErr /\ BlockEqual(arg, DecodeBlock(db[key]))
       ELSE dbLast'.err = ErrBlockDoesNotExist
C21_Step ==
  LET key == getBlockKey(dbLast'.hash)
      arg == StoreBlock(dbLast'.hash, dbLast'.time, dbLast'.payload)
  IN
  /\ dbLast'.op = "UpdateBlock" =>
       /\ dbLast'.err = NoErr <=> key \in DOMAIN db
       /\ dbLast'.err # NoErr => dbLast'.err = ErrBlockDoesNotExist /\ db' = db
       /\ dbLast'.err = NoErr =>
            /\ DOMAIN db' = DOMAIN db
            /\ BlockEqual(DecodeBlock(db'[key]), arg)
            /\ \A k \in DOMAIN db \ {key} : db'[k] = db[k]
  /\ (/\ dbLast'.op = "GetBlock"
      /\ dbLast.op = "UpdateBlock" /\ dbLast.err = NoErr
      /\ dbLast.hash = dbLast'.hash)
     => /\ dbLast'.err = NoErr
        /\ BlockEqual(arg, StoreBlock(dbLast.hash, dbLast.time, dbLast.payload))
  /\ DOMAIN db \subseteq DOMAIN db'
  /\ DOMAIN db' # DOMAIN db => dbLast'.op = "PutBlock" /\ dbLast'.err = NoErr
C22_LabelInvariant ==
  \A p \in PKs : p \in ps.srvr.direct <=> MapGet(ps.peer2Labels, p) # {}

\* The labels of a node, and the labels of the rounds of a set
LabelsOf(s, p) == MapGet(s.peer2Labels, p)
LabelsOfRounds(s, p, rs) == {l \in LabelsOf(s, p) : l.round \in rs}
\* The two maps hold the same pairs of a node and a label
MapsAgree(s) ==
  /\ \A p \in DOMAIN s.peer2Labels : \A l \in s.peer2Labels[p] :
       p \in MapGet(s.label2Peers, l)
  /\ \A l \in DOMAIN s.label2Peers : \A p \in s.label2Peers[l] :
       l \in MapGet(s.peer2Labels, p)
GroupNamesOf(round) ==
  {dkgSetName(round)} \cup {notarySetName(c, round) : c \in Chains}

\* C23: ForgetConnection(round) undoes, for every round r <= round of the
\* history, what BuildConnection(r) made (no other build being recorded):
\* afterwards no label of such a round is left in either map, the groups of
\* those rounds are removed, a node left without label is no direct peer,
\* the history holds no round <= round, and the labels of the rounds above
\* round are as they were.
C23_Step ==
  LET round == psLast'.round
      forgotten == {r \in ps.history : r <= round}
  IN
  (psLast'.op = "ForgetConnection"
   /\ ps.notaryHistory = {} /\ ps.dkgHistory = {})
  => /\ \A p \in PKs : LabelsOfRounds(ps', p, forgotten) = {}
     /\ MapsAgree(ps')
     /\ \A r \in forgotten : GroupNamesOf(r) \cap DOMAIN ps'.srvr.groups = {}
     /\ \A p \in PKs : LabelsOf(ps', p) = {} => p \notin ps'.srvr.direct
     /\ \A r \in ps'.history : r > round
     /\ \A p \in PKs :
          LabelsOfRounds(ps', p, {r \in Rounds : r > round})
            = LabelsOfRounds(ps, p, {r \in Rounds : r > round})
C23_ForgetInverts == [][C23_Step]_vars

\* The label of the set a group name stands for
LabelOfGroup(name) ==
  IF name[Len(name)] = "dkgset" THEN dkgLabelOf(name[1])
  ELSE notaryLabelOf(name[1], name[2])

\* C24: while a group is registered with the server, every node of the
\* group carries the label of the set of the group in peer2Labels and in
\* label2Peers; and a step that removes a group removes the label of its set
\* from exactly the nodes of the group.
C24_GroupsLabelled ==
  \A name \in DOMAIN ps.srvr.groups : \A p \in ps.srvr.groups[name] :
    /\ LabelOfGroup(name) \in MapGet(ps.peer2Labels, p)
    /\ p \in MapGet(ps.label2Peers, LabelOfGroup(name))
C24_Step ==
  \A name \in DOMAIN ps.srvr.groups \ DOMAIN ps'.srvr.groups :
    \A p \in PKs :
      /\ LabelOfGroup(name) \notin LabelsOf(ps', p)
      /\ p \notin ps.srvr.groups[name] =>
           (LabelOfGroup(name) \in LabelsOf(ps', p)
              <=> LabelOfGroup(name) \in LabelsOf(ps, p))
C24_GroupLabels == [](C24_GroupsLabelled) /\ [][C24_Step]_vars

\* The notary labels BuildNotaryConn(round) gives to node p: the ones of
\* the chains whose notary set holds both the node itself and p
NotaryConnLabels(p, round) ==
  { notaryLabelOf(c, round) :
      c \in { c \in Chains :
                /\ c < GetNumChains(round)
                /\ ~NotarySet(round, c).err
                /\ selfPK \in NotarySet(round, c).pks
                /\ p \in NotarySet(round, c).pks \ {selfPK} } }

\* C25: a BuildNotaryConn(round) for a round of the notary history changes
\* nothing; a ForgetNotaryConn(round) that follows a ForgetNotaryConn(round),
\* or finds no round <= round in the notary history, changes nothing; a
\* ForgetNotaryConn(round) removes from every node exactly the notary labels
\* BuildNotaryConn gave it for the recorded rounds r <= round, removes
\* those rounds from the notary history and leaves every other label and
\* the histories of BuildConnection and BuildDKGConn as they were.
C25_Step ==
  LET round == psLast'.round
      forgotten == {r \in ps.notaryHistory : r <= round}
  IN
  /\ (psLast'.op = "BuildNotaryConn" /\ round \in ps.notaryHistory)
     => ps' = ps
  /\ (psLast'.op = "ForgetNotaryConn" /\ (psLast = psLast' \/ forgotten = {}))
     => ps' = ps
  /\ psLast'.op = "ForgetNotaryConn"
     => /\ \A p \in PKs :
             LabelsOf(ps', p)
               = LabelsOf(ps, p) \ UNION {NotaryConnLabels(p, r) : r \in forgotten}
        /\ MapsAgree(ps')
        /\ ps'.notaryHistory = ps.notaryHistory \ forgotten
        /\ ps'.history = ps.history
        /\ ps'.dkgHistory = ps.dkgHistory
DKGConnLabels(p, rs) ==
  { dkgLabelOf(r) :
      r \in { r \in rs : /\ ~DKGSet(r).err
                         /\ selfPK \in DKGSet(r).pks
                         /\ p \in DKGSet(r).pks \ {selfPK} } }

\* C26: BuildDKGConn(round) changes nothing when the lookup fails or the
\* node itself is not in the DKG set of the round; when it is, the round
\* is recorded in the DKG history and every other member of the set, and
\* never the node itself, gets the label {dkgset, round} and becomes a
\* direct peer; ForgetDKGConn(round) removes exactly the labels BuildDKGConn
\* gave for the recorded rounds r <= round and those rounds from the DKG
\* history.
C26_Step ==
  LET round == psLast'.round
      dkg == DKGSet(round)
      forgotten == {r \in ps.dkgHistory : r <= round}
  IN
  /\ (psLast'.op = "BuildDKGConn" /\ (dkg.err \/ selfPK \notin dkg.pks))
     => ps' = ps
  /\ (psLast'.op = "BuildDKGConn" /\ ~dkg.err /\ selfPK \in dkg.pks)
     => /\ ps'.dkgHistory = ps.dkgHistory \cup {round}
        /\ \A p \in PKs :
             LabelsOf(ps', p) = LabelsOf(ps, p) \cup DKGConnLabels(p, {round})
        /\ ps'.srvr.direct = ps.srvr.direct \cup (dkg.pks \ {selfPK})
        /\ LabelsOf(ps', selfPK) = {} /\ selfPK \notin ps'.srvr.direct
        /\ MapsAgree(ps')
        /\ ps'.history = ps.history /\ ps'.notaryHistory = ps.notaryHistory
        /\ ps'.srvr.groups = ps.srvr.groups
  /\ psLast'.op = "ForgetDKGConn"
     => /\ \A p \in PKs :
             LabelsOf(ps', p) = LabelsOf(ps, p) \ DKGConnLabels(p, forgotten)
        /\ MapsAgree(ps')
        /\ ps'.dkgHistory = ps.dkgHistory \ forgotten
        /\ ps'.history = ps.history /\ ps'.notaryHistory = ps.notaryHistory
C26_DKGConn == [][C26_Step]_vars
\* BuildDKGConn(1) labelled the other members of the DKG set of round 1
C26_Witness ==
  /\ psLast = [op |-> "BuildDKGConn", round |-> 1]
  /\ ps.dkgHistory = {1}
  /\ DKGSet(1) = Found({0, 1, 2})
  /\ \A p \in {1, 2} : LabelsOf(ps, p) = {dkgLabelOf(1)} /\ p \in ps.srvr.direct
  /\ LabelsOf(ps, selfPK) = {}

\* C27: a set whose lookup fails is skipped: no node ever carries the label
\* of such a set and no group is ever registered for it; and a
\* BuildConnection or a first BuildNotaryConn of a round still handles the
\* notary sets of the round that are found: the other members of a set the
\* node itself is in carry its label and are direct peers, and the group of
\* a set the node itself is not in is registered.
C27_FailedSetsSkipped ==
  /\ \A r \in Rounds : DKGSet(r).err =>
       /\ dkgSetName(r) \notin DOMAIN ps.srvr.groups
       /\ dkgLabelOf(r) \notin DOMAIN ps.label2Peers
  /\ \A r \in Rounds : \A c \in Chains : NotarySet(r, c).err =>
       /\ notarySetName(c, r) \notin DOMAIN ps.srvr.groups
       /\ notaryLabelOf(c, r) \notin DOMAIN ps.label2Peers
C27_Step ==
  LET round == psLast'.round IN
  (\/ psLast'.op = "BuildConnection"
   \/ psLast'.op = "BuildNotaryConn" /\ round \notin ps.notaryHistory)
  => \A c \in {c \in Chains : c < GetNumChains(round)} :
       LET notary == NotarySet(round, c) IN
       ~notary.err =>
         IF selfPK \in notary.pks
         THEN \A p \in notary.pks \ {selfPK} :
                /\ notaryLabelOf(c, round) \in LabelsOf(ps', p)
                /\ p \in ps'.srvr.direct
         ELSE /\ notarySetName(c, round) \in DOMAIN ps'.srvr.groups
              /\ ps'.srvr.groups[notarySetName(c, round)] = notary.pks
C27_LookupFailure == [](C27_FailedSetsSkipped) /\ [][C27_Step]_vars

\* C28: a time whose nanoseconds since the epoch fit the unsigned integer
\* of the wire comes back from encoding and decoding as the same instant,
\* as the time of the block and as the time of its finalization.
C28_RoundTrip ==
  wire.pc = "decoded" =>
    /\ wire.block.timestamp.nano \in 0..(2^TimeBits - 1)
         => wire.decoded.timestamp.nano = wire.block.timestamp.nano
    /\ wire.block.finalization.nano \in 0..(2^TimeBits - 1)
         => wire.decoded.finalization.nano = wire.block.finalization.nano
\* C28, amended: a time whose nanoseconds since the epoch fit the signed
\* integer of the same width, the times before the epoch among them, comes
\* back as the same instant, in UTC, as the time of the block and as the
\* time of its finalization; a time above that range never does.
C28_RoundTripSigned ==
  wire.pc = "decoded" =>
    /\ wire.decoded.timestamp.loc = "UTC"
    /\ wire.decoded.finalization.loc = "UTC"
    /\ wire.block.timestamp.nano \in Instants
         <=> wire.decoded.timestamp.nano = wire.block.timestamp.nano
    /\ wire.block.finalization.nano \in Instants
         <=> wire.decoded.finalization.nano = wire.block.finalization.nano
\* A block came back whose time is before the epoch and not a whole
\* second, and whose finalization time is the last one that fits
C28_Witness ==
  /\ wire.pc = "decoded"
  /\ wire.block.timestamp = [nano |-> 0 - 2^(TimeBits - 1), loc |-> "Local"]
  /\ wire.block.finalization.nano = 2^(TimeBits - 1) - 1
  /\ wire.decoded.timestamp.nano = wire.block.timestamp.nano
  /\ wire.decoded.finalization.nano = wire.block.finalization.nano

\* The call of PreparePayload got as far as the pool and returned a list
PreparedFromPool ==
  Prepared_ /\ last.err = NoErr /\ last.block.payload.enc = "list"
\* The senders of the pool whose address maps to the chain of the position
OnChain(pos) == {a \in Addrs : a % gov.numChains[pos.round] = pos.chainID}
\* The run of queue q from index i on: up to the first transaction whose
\* gas is below its intrinsic gas or whose cost the balance left cannot pay
RECURSIVE RunFrom(_, _, _)
RunFrom(q, i, balance) ==
  IF i > Len(q) THEN <<>>
  ELSE IF q[i].gas < IntrinsicGas(q[i]) \/ balance - Cost(q[i]) < 0 THEN <<>>
  ELSE <<q[i]>> \o RunFrom(q, i + 1, balance - Cost(q[i]))
\* The run of a sender: from the transaction of its queue that carries the
\* expected next nonce, with the effective balance of the sender
RunOf(chain, a, q) ==
  LET starts == {i \in DOMAIN q : q[i].nonce = ExpectedNext(chain, a)} IN
  IF starts = {} THEN <<>>
  ELSE RunFrom(q, CHOOSE i \in starts : TRUE, EffectiveBalance(chain, a))
IsPrefix(s, t) == Len(s) <= Len(t) /\ \A i \in DOMAIN s : s[i] = t[i]
Included(a) == TxsOfSender(last.block.payload.txs, a)
\* The place of a sender in the order the pending map hands out
PlaceOf(a) == CHOOSE i \in DOMAIN last.env.order : last.env.order[i] = a
\* The next transaction of the run of a sender would pass the gas limit of
\* the current block
StoppedByGas(chain, a) ==
  LET run == RunOf(chain, a, last.env.txsMap[a]) IN
  /\ Len(Included(a)) < Len(run)
  /\ SumGas(last.block.payload.txs) + run[Len(Included(a)) + 1].gas
       > CurrentBlock.gasLimit

\* C30 as stated: for every sender that maps to the chain, the
\* transactions PreparePayload includes are the run of its queue that
\* starts at the transaction with the expected next nonce and ends before
\* the first transaction with too little gas or too high a cost.
C30_Original ==
  PreparedFromPool =>
    \A a \in OnChain(last.block.position) :
      Included(a) = RunOf(last.block.position.chainID, a, last.env.txsMap[a])

\* C30: for a pool whose queues carry consecutive nonces and every sender
\* that maps to the chain, the transactions PreparePayload includes are
\* the first transactions of that run, in its order; they are the whole run
\* unless the context of the worker was done before the sender was looked
\* at, or the next transaction of the run would pass the gas limit of the
\* current block, or a sender looked at before stopped at that limit.
C30_Run ==
  (PreparedFromPool /\ \A q \in PoolQueues : IsContiguous(q)) =>
    \A a \in OnChain(last.block.position) :
      LET chain == last.block.position.chainID
          run == RunOf(chain, a, last.env.txsMap[a])
      IN
      /\ IsPrefix(Included(a), run)
      /\ Included(a) # run =>
           \/ PlaceOf(a) > last.env.cut
           \/ StoppedByGas(chain, a)
           \/ \E b \in OnChain(last.block.position) :
                PlaceOf(b) < PlaceOf(a) /\ StoppedByGas(chain, b)
\* A sender with a pending nonce and a queue of two that starts below the
\* expected nonce contributes the transaction that carries that nonce
C30_Witness ==
  /\ PreparedFromPool /\ \A q \in PoolQueues : IsContiguous(q)
  /\ 1 \in OnChain(last.block.position)
  /\ 1 \in SendersOf(ConfirmedTxs(last.block.position.chainID))
  /\ Len(last.env.txsMap[1]) = 2
  /\ last.env.txsMap[1][1].nonce < ExpectedNext(last.block.position.chainID, 1)
  /\ Len(Included(1)) = 1
  /\ Included(1) = RunOf(last.block.position.chainID, 1, last.env.txsMap[1])

\* PreparePayload run once more in the state and with the pool of the call
\* that has returned, without a deadline, the map of the pool handing out
\* its addresses in the order o
PreparedAgain(o) ==
  PreparePayloadReturn(
    LET w == preparePayload(last.block.position,
                            Env(FALSE, last.env.pendingErr, FALSE,
                                last.env.txsMap, o, Cardinality(Addrs)))
    IN IF w.err # NoErr THEN <<w.err>> ELSE <<>>,
    <<preparePayload(last.block.position,
                     Env(FALSE, last.env.pendingErr, FALSE,
                         last.env.txsMap, o, Cardinality(Addrs))).payload>>)

\* PreparePayload has returned and no deadline came in its way
PreparedInTime ==
  /\ last.op = "PreparePayload"
  /\ ~last.env.lockLate /\ ~last.env.hardLimit
  /\ last.env.cut = Cardinality(Addrs)

\* C31: for a fixed pool snapshot, committed state, overlay of confirmed
\* blocks and governance configuration, and with no deadline expiring, two
\* executions of PreparePayload for the same position return the same
\* payload, in whatever order the sender addresses are iterated.
C31_Deterministic ==
  PreparedInTime =>
    \A o \in AddrOrders :
      /\ PreparedAgain(o).payload = last.block.payload
      /\ PreparedAgain(o).err = last.err

\* The calls of the guarded write op for id that returned no error
Succeeded(op, id) ==
  { d \in writers.done : d.op = op /\ d.id = id /\ d.err = NoErr }

\* C32: for any interleaving of concurrent calls to the same guarded write
\* (PutDKGPrivateKey for one round, PutBlock for one hash,
\* PutCompactionChainTipInfo for one height) at most one call succeeds.
C32_GuardedWrites ==
  \A op \in GuardedWrites, id \in WriteIds : Cardinality(Succeeded(op, id)) <= 1

\* C33: for a block whose acks are sorted ascending by their bytes without
\* duplicates, and for every hash, IsAcking(hash) is true exactly when the
\* hash is one of the acks.
C33_IsAcking ==
  acking.pc = "returned" =>
    (acking.result <=>
       \E i \in 1..Len(acking.acks) : acking.acks[i] = acking.hash)

\* IsAcking found the last of three acks
C33_Witness ==
  /\ acking.pc = "returned"
  /\ Len(acking.acks) = MaxAcks
  /\ acking.hash = acking.acks[MaxAcks]
  /\ acking.result

\* The blocks a queue holds
QueueHolds(q) == { q.bs[i] : i \in 1..Len(q.bs) }
\* This step is a heap.Pop
IsQueuePop == queue.kind # "none" /\ Len(queue'.bs) = Len(queue.bs) - 1
\* This step is a heap.Push
IsQueuePush == queue.kind # "none" /\ Len(queue'.bs) = Len(queue.bs) + 1

C34_Step ==
  /\ IsQueuePop =>
       /\ queue'.ret \in QueueHolds(queue)
       /\ QueueHolds(queue') = QueueHolds(queue) \ {queue'.ret}
       /\ queue.kind = "BlocksByPosition" =>
            \A b \in QueueHolds(queue) : ~Newer(queue'.ret.position, b.position)
       /\ queue.kind = "BlocksByFinalizationHeight" =>
            \A b \in QueueHolds(queue) : queue'.ret.finalization <= b.finalization
  /\ IsQueuePush =>
       /\ Cardinality(QueueHolds(queue')) = Len(queue'.bs)
       /\ \E b \in QueueHolds(queue') :
            /\ b.hash = queue'.pushes
            /\ QueueHolds(queue') = QueueHolds(queue) \cup {b}

\* C34: with the operations of container/heap, a pop of BlocksByPosition
\* returns a block of the queue than which no block of the queue is older,
\* a pop of BlocksByFinalizationHeight a block with the smallest
\* finalization height; a pushed block stays in the queue until it is
\* popped and is popped once.
C34_MinHeaps == [][C34_Step]_vars

\* A pop out of a queue of four blocks returned the block pushed last
C34_Witness ==
  /\ queue.kind = "BlocksByPosition"
  /\ queue.pushes = MaxPushes
  /\ Len(queue.bs) = MaxPushes - 1
  /\ queue.ret.hash = MaxPushes

\* C35: after any sequence of MarkTransaction, SendTransactions and
\* AsyncSendTransactions the peer knows at most maxKnownTxs transaction
\* hashes, and after any sequence of MarkBlock, SendNewBlock,
\* SendNewBlockHashes, AsyncSendNewBlock and AsyncSendNewBlockHash at most
\* maxKnownBlocks block hashes.
C35_KnownBounded ==
  /\ Cardinality(peer.knownTxs) <= maxKnownTxs
  /\ Cardinality(peer.knownBlocks) <= maxKnownBlocks

\* What an AsyncSend of message msg must do to the queue and the known set
\* of its kind: p is the peer before the call and q the peer after it
AsyncSent(p, q, queued, known, max, msg, hashes) ==
  IF Len(p[queued]) >= max
  THEN q = p
  ELSE /\ q[queued] = Append(p[queued], msg)
       /\ q[known] = p[known] \cup hashes
       /\ \A f \in DOMAIN p : f \notin {queued, known} => q[f] = p[f]

\* The AsyncSend calls in the state the peer is in
C36_Calls ==
  /\ \A txs \in PeerTxLists :
       AsyncSent(peer, AsyncSendTransactions(peer, txs),
                 "queuedTxs", "knownTxs", maxQueuedTxs, txs, HashSet(txs))
  /\ \A block \in PeerBlocks :
       /\ AsyncSent(peer, AsyncSendNewBlock(peer, block),
                    "queuedProps", "knownBlocks", maxQueuedProps, block, {block})
       /\ AsyncSent(peer, AsyncSendNewBlockHash(peer, block),
                    "queuedAnns", "knownBlocks", maxQueuedAnns, block, {block})
  /\ \A block \in PeerLatticeBlocks :
       AsyncSent(peer, AsyncSendLatticeBlock(peer, block),
                 "queuedLatticeBlocks", "knownLatticeBlocks",
                 maxQueuedLatticeBlocks, block, {block})
  /\ \A hashes \in PeerPulls :
       LET q == AsyncSendPullBlocks(peer, hashes) IN
       IF Len(peer.queuedPullBlocks) >= maxQueuedPullBlocks THEN q = peer
       ELSE q = [peer EXCEPT !.queuedPullBlocks = Append(@, hashes)]

\* No queue holds more than its capacity, and a queue grows by one message
\* at its end, whose hashes are known afterwards
C36_Queues ==
  /\ Len(peer.queuedTxs) <= maxQueuedTxs
  /\ Len(peer.queuedProps) <= maxQueuedProps
  /\ Len(peer.queuedAnns) <= maxQueuedAnns
  /\ Len(peer.queuedLatticeBlocks) <= maxQueuedLatticeBlocks
  /\ Len(peer.queuedPullBlocks) <= maxQueuedPullBlocks
C36_Step ==
  /\ Len(peer'.queuedTxs) > Len(peer.queuedTxs) =>
       /\ Len(peer.queuedTxs) < maxQueuedTxs
       /\ \E txs \in PeerTxLists :
            /\ peer'.queuedTxs = Append(peer.queuedTxs, txs)
            /\ HashSet(txs) \subseteq peer'.knownTxs
  /\ Len(peer'.queuedProps) > Len(peer.queuedProps) =>
       /\ Len(peer.queuedProps) < maxQueuedProps
       /\ \E block \in PeerBlocks :
            /\ peer'.queuedProps = Append(peer.queuedProps, block)
            /\ block \in peer'.knownBlocks
  /\ Len(peer'.queuedAnns) > Len(peer.queuedAnns) =>
       /\ Len(peer.queuedAnns) < maxQueuedAnns
       /\ \E block \in PeerBlocks :
            /\ peer'.queuedAnns = Append(peer.queuedAnns, block)
            /\ block \in peer'.knownBlocks
  /\ Len(peer'.queuedLatticeBlocks) > Len(peer.queuedLatticeBlocks) =>
       /\ Len(peer.queuedLatticeBlocks) < maxQueuedLatticeBlocks
       /\ \E block \in PeerLatticeBlocks :
            /\ peer'.queuedLatticeBlocks = Append(peer.queuedLatticeBlocks, block)
            /\ block \in peer'.knownLatticeBlocks

\* C36: an AsyncSend on a queue that holds its maximum number of messages
\* drops the message, leaving the queue and the known set as they were;
\* otherwise the message is appended to the queue and its hash is marked
\* known.  No queue ever holds more than its capacity.
C36_NonBlocking == [](C36_Calls /\ C36_Queues) /\ [][C36_Step]_vars

\* The queue of transactions is full and a list sent now is dropped without
\* its hashes becoming known
C36_Witness ==
  /\ Len(peer.queuedTxs) = maxQueuedTxs
  /\ peer.knownTxs = {1}
  /\ AsyncSendTransactions(peer, <<2, 3>>) = peer

\* C37: under every interleaving of the payload worker with the outer
\* deadline, PreparePayload never returns a non-nil payload together with
\* a non-nil error, and when the error of the worker is in the channel as
\* the caller reads it, the call returns that error with an empty payload.
C37_ErrorDominates ==
  pp.callerPc = "returned" =>
    /\ ~(pp.ret.err # NoErr /\ pp.ret.payload # NilPayload)
    /\ pp.w.err # NoErr /\ pp.workerAtErr \in {"sendPayload", "sendDone", "exit"}
         => pp.ret = Prepared(NilPayload, pp.w.err)

\* The outer deadline fired, the worker had sent its error and nothing else
\* when the caller read the channels, and the call returned the error
C37_Witness ==
  /\ pp.callerPc = "returned"
  /\ pp.hardDone
  /\ pp.workerAtErr = "sendPayload"
  /\ pp.ret.err # NoErr
  /\ pp.ret.payload = NilPayload

\* C38: the worker of PreparePayload always comes to its end and gives the
\* read lock of the chain back, also when the caller has returned before:
\* each of the three channels has room when the worker sends on it, the
\* worker holds no read lock when it sends, and a writer that waits for the
\* lock of a chain gets it
WorkerRuns == pp.workerPc \notin {"none", "exit"}
SendsNeverBlock ==
  /\ pp.workerPc = "sendErr" => Len(pp.errCh) < 1
  /\ pp.workerPc = "sendPayload" => Len(pp.payloadCh) < 1
  /\ pp.workerPc = "sendDone" => Len(pp.doneCh) < 1
NoLeakedRLock ==
  \A c \in Chains :
    rwLock.readers[c] =
      IF pp.workerPc \in {"locked", "RUnlock"} /\ pp.position.chainID = c
      THEN 1 ELSE 0
C38_WorkerTerminates ==
  /\ [](SendsNeverBlock /\ NoLeakedRLock)
  /\ WorkerRuns ~> (pp.workerPc = "exit")
  /\ \A c \in Chains : rwLock.waiting[c] ~> chainLock[c]

\* The caller has returned at the outer deadline, and the worker that nobody
\* waits for has sent its results and is gone
C38_Witness ==
  /\ pp.callerPc = "returned"
  /\ pp.hardDone /\ pp.firedFirst
  /\ pp.workerAtErr = "RLock"
  /\ pp.workerPc = "exit"
  /\ Len(pp.doneCh) = 1
  /\ \A c \in Chains : rwLock.readers[c] = 0

\* C39: the two maps of labels agree after every sequence of Build* and
\* Forget* calls: a label is in peer2Labels of a peer exactly when the peer
\* is in label2Peers of the label, and no key of either map holds the empty
\* set
NoEmptyKey(m) == \A k \in DOMAIN m : m[k] # {}
C39_LabelMapsConsistent ==
  /\ MapsAgree(ps)
  /\ NoEmptyKey(ps.peer2Labels)
  /\ NoEmptyKey(ps.label2Peers)

\* A Forget* call of the first round has run and the labels of the second
\* round are left in both maps
C39_Witness ==
  /\ psLast.op \in {"ForgetConnection", "ForgetDKGConn"}
  /\ DOMAIN ps.peer2Labels # {}
  /\ DOMAIN ps.label2Peers # {}
  /\ psLast.round = 0 /\ 1 \in ps.history

\* C40: when every block is confirmed right after VerifyBlock returned OK
\* for it and the blocks are delivered in the order of their confirmation,
\* then on every chain the pending cost of a sender is covered by its
\* balance in the state at the root of the chain, and the nonces of its
\* transactions in the confirmed blocks of the chain continue its nonce in
\* that state one by one
NoncesContinue(chain, a) ==
  IsRun(TxsOfSender(ConfirmedTxs(chain), a), stateDB[chainRoot[chain]].nonce[a])
CostCovered(chain, a) ==
  PendingCost(chain, a) <= stateDB[chainRoot[chain]].balance[a]
C40_NoOverspending ==
  \A c \in Chains : chainRoot[c] # None =>
    \A a \in Addrs : CostCovered(c, a) /\ NoncesContinue(c, a)

====
